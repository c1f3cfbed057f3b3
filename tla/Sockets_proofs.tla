--------------------------- MODULE Sockets_proofs ---------------------------
(***************************************************************************)
(* Who owns which descriptor, for any number of socket objects,            *)
(* descriptors and streams, and every way a socket call can fail.          *)
(*                                                                         *)
(* The argument: no two objects refer to one descriptor, because a number  *)
(* is handed out only when it is free, and the number of an object that    *)
(* exists is free only if listen() has closed it, after which no socket is *)
(* made any more.  So a destructor closes a descriptor nobody else uses,   *)
(* and what has no owner was left by the one exception that ended the loop *)
(* of common_run.                                                          *)
(*                                                                         *)
(* The parts of the invariant have the pointers, objects and descriptors   *)
(* as parameters: they are stated of the state, and of what a step hands   *)
(* to Settle before the destructors run.                                   *)
(***************************************************************************)
EXTENDS Integers, Sockets, FiniteSetTheorems, TLAPS

Pointers(ls, c, ps) == (ps \cup {ls, c}) \ {NoObj}
Users(c, ps) == (ps \cup {c}) \ {NoObj}
Ended == {"draining", "returned", "killed"}
Usable == {"connected", "broken"} \cup (IF Srt /\ force_break THEN {"gone"} ELSE {})

\* Descriptors in use that no object refers to.
Left(objs, t) == {d \in Descs : t[d] \in InUse /\ \A o \in Objs : objs[o] # d}

\* The epolls of a set of objects, if l is the listener.
Weight(S, l) ==
  EpollsOf(TRUE) * Cardinality({o \in S : ~cfg.caller /\ o # l})
    + EpollsOf(FALSE) * Cardinality({o \in S : cfg.caller \/ o = l})

\* Pointers are to objects that exist, no two of which share a descriptor.
ObjectsOK(ls, c, ps, objs) ==
  /\ objs \in [Objs -> Descs \cup {NoDesc}]
  /\ ps \subseteq Objs /\ Pointers(ls, c, ps) \subseteq Objs
  /\ \A o \in Pointers(ls, c, ps) : objs[o] # NoDesc
  /\ \A o, p \in Objs : objs[o] # NoDesc /\ objs[o] = objs[p] => o = p

\* Which pointers main holds where.  Only a TCP caller stays in listening_sock
\* while its pipe uses it.
MainOK(m, ls, c, ps) ==
  /\ m \in MainStates
  /\ c # NoObj <=> m = "handover"
  /\ m \in {"listen", "establish"} => ls # NoObj
  /\ m = "listen" => ~cfg.caller
  /\ cfg.kind = "udp" => ls = NoObj
  /\ m = "returned" => Pointers(ls, c, ps) = {}
  /\ ls \in Users(c, ps) => cfg.kind = "tcp" /\ cfg.caller

\* An object's descriptor is free only after listen() has failed; a connection
\* handed over or used by a pipe is there.
OwnersOK(m, ls, c, ps, objs, t) ==
  /\ t \in [Descs -> DescStates]
  /\ \A o \in Pointers(ls, c, ps) :
       t[objs[o]] = "free" => m = "draining" /\ o = ls /\ ~cfg.caller
  /\ \A o \in Users(c, ps) : t[objs[o]] \in Usable

\* Nothing is left before the exception that ends the loop, then one thing.
LeftOK(m, objs, t) ==
  /\ m \notin Ended => Left(objs, t) = {}
  /\ \A d, e \in Left(objs, t) : d = e

\* The same of the epolls: e have been made, and S exist.
EpollsOK(m, S, l, e) ==
  ~force_break =>
    \E k \in 0..EpollsOf(FALSE) : e = Weight(S, l) + k /\ (m \notin Ended => k = 0)

Rest ==
  /\ cfg \in Config /\ force_break \in BOOLEAN
  /\ reading \subseteq pipes /\ epolls \in Nat
  /\ inbox \subseteq Descs /\ clogged \subseteq Descs

IInv ==
  /\ Rest
  /\ ObjectsOK(listening_sock, conn, pipes, m_bind_socket)
  /\ Live = Pointers(listening_sock, conn, pipes)
  /\ MainOK(main, listening_sock, conn, pipes)
  /\ OwnersOK(main, listening_sock, conn, pipes, m_bind_socket, table)
  /\ LeftOK(main, m_bind_socket, table)
  /\ EpollsOK(main, Live, listening_sock, epolls)

-----------------------------------------------------------------------------
(* Epolls.                                                                 *)

LEMMA EpollNumbers ==
  \/ EpollsOf(TRUE) = 0 /\ EpollsOf(FALSE) = 0
  \/ EpollsOf(TRUE) = 1 /\ EpollsOf(FALSE) = 2
<1>1. CASE ~Srt \/ cfg.blocking
  BY <1>1 DEF EpollsOf
<1>2. CASE ~(~Srt \/ cfg.blocking)
  BY <1>2 DEF EpollsOf
<1> QED
  BY <1>1, <1>2

LEMMA EpollNat ==
  /\ EpollsOf(TRUE) \in Nat /\ EpollsOf(FALSE) \in Nat
  /\ 0 \in 0..EpollsOf(FALSE) /\ 0..EpollsOf(FALSE) \subseteq Nat
<1> DEFINE a == EpollsOf(TRUE)
           b == EpollsOf(FALSE)
<1>1. (a = 0 /\ b = 0) \/ (a = 1 /\ b = 2)
  BY EpollNumbers
<1> HIDE DEF a, b
<1>2. a \in Nat /\ b \in Nat /\ 0 \in 0..b /\ 0..b \subseteq Nat
  BY <1>1
<1> QED
  BY <1>2, Zenon DEF a, b

LEMMA EpollArithmetic ==
  ASSUME NEW a, NEW b, (a = 0 /\ b = 0) \/ (a = 1 /\ b = 2),
         NEW x \in Nat, NEW y \in Nat, NEW u \in Nat, NEW v \in Nat
  PROVE  /\ a * x + b * y \in Nat
         /\ a * (x + u) + b * (y + v) = (a * x + b * y) + (a * u + b * v)
         /\ a * 0 + b * 1 = b
         /\ a * 1 + b * 0 = a
<1>1. CASE a = 0 /\ b = 0
  BY <1>1
<1>2. CASE a = 1 /\ b = 2
  BY <1>2
<1> QED
  BY <1>1, <1>2

LEMMA OwnedIsWeight == \A S : EpollsOwned(S) = Weight(S, listening_sock)
<1> SUFFICES ASSUME NEW S PROVE EpollsOwned(S) = Weight(S, listening_sock)
  OBVIOUS
<1>1. {o \in S : Accepted(o)} = {o \in S : ~cfg.caller /\ o # listening_sock}
  BY DEF Accepted
<1>2. {o \in S : ~Accepted(o)} = {o \in S : cfg.caller \/ o = listening_sock}
  BY DEF Accepted
<1> QED
  BY <1>1, <1>2 DEF EpollsOwned, Weight

LEMMA SubsetFinite ==
  ASSUME NEW S \in SUBSET Objs
  PROVE  IsFiniteSet(S) /\ Cardinality(S) \in Nat
BY SocketsAssumption, FS_Subset, FS_CardinalityType

LEMMA WeightType ==
  ASSUME NEW S \in SUBSET Objs, NEW l
  PROVE  Weight(S, l) \in Nat
<1>1. /\ Cardinality({o \in S : ~cfg.caller /\ o # l}) \in Nat
      /\ Cardinality({o \in S : cfg.caller \/ o = l}) \in Nat
  <2>1. {o \in S : ~cfg.caller /\ o # l} \in SUBSET Objs /\ {o \in S : cfg.caller \/ o = l} \in SUBSET Objs
    OBVIOUS
  <2> QED
    BY <2>1, SubsetFinite
<1> QED
  BY <1>1, EpollNumbers, EpollArithmetic DEF Weight

LEMMA CardinalitySplit ==
  ASSUME NEW S \in SUBSET Objs, NEW D \in SUBSET Objs, S \cap D = {}
  PROVE  Cardinality(S \cup D) = Cardinality(S) + Cardinality(D)
<1>1. IsFiniteSet(S) /\ IsFiniteSet(D) /\ Cardinality(S) \in Nat /\ Cardinality(D) \in Nat
  BY SubsetFinite
<1>2. Cardinality({}) = 0
  BY FS_EmptySet
<1>3. S \cap D = {}
  OBVIOUS
<1>4. Cardinality(S \cup D) = Cardinality(S) + Cardinality(D) - Cardinality(S \cap D)
  BY <1>1, FS_Union
<1>5. Cardinality(S \cap D) = 0
  BY <1>2, <1>3
<1> QED
  BY <1>1, <1>4, <1>5

\* The epolls of two sets of objects add up.
LEMMA WeightSplit ==
  ASSUME NEW S \in SUBSET Objs, NEW D \in SUBSET Objs, S \cap D = {}, NEW l
  PROVE  Weight(S \cup D, l) = Weight(S, l) + Weight(D, l)
<1> DEFINE A(X) == {o \in X : ~cfg.caller /\ o # l}
           B(X) == {o \in X : cfg.caller \/ o = l}
<1>1. A(S \cup D) = A(S) \cup A(D) /\ B(S \cup D) = B(S) \cup B(D)
  OBVIOUS
<1>2. /\ A(S) \in SUBSET Objs /\ A(D) \in SUBSET Objs /\ A(S) \cap A(D) = {}
      /\ B(S) \in SUBSET Objs /\ B(D) \in SUBSET Objs /\ B(S) \cap B(D) = {}
  OBVIOUS
<1>3. /\ Weight(S \cup D, l) = EpollsOf(TRUE) * Cardinality(A(S \cup D)) + EpollsOf(FALSE) * Cardinality(B(S \cup D))
      /\ Weight(S, l) = EpollsOf(TRUE) * Cardinality(A(S)) + EpollsOf(FALSE) * Cardinality(B(S))
      /\ Weight(D, l) = EpollsOf(TRUE) * Cardinality(A(D)) + EpollsOf(FALSE) * Cardinality(B(D))
  BY DEF Weight
<1> HIDE DEF A, B
<1>4. /\ Cardinality(A(S \cup D)) = Cardinality(A(S)) + Cardinality(A(D))
      /\ Cardinality(B(S \cup D)) = Cardinality(B(S)) + Cardinality(B(D))
  BY <1>1, <1>2, CardinalitySplit
<1>5. /\ Cardinality(A(S)) \in Nat /\ Cardinality(A(D)) \in Nat
      /\ Cardinality(B(S)) \in Nat /\ Cardinality(B(D)) \in Nat
  BY <1>2, SubsetFinite
<1> DEFINE a == EpollsOf(TRUE)
           b == EpollsOf(FALSE)
<1>6. (a = 0 /\ b = 0) \/ (a = 1 /\ b = 2)
  BY EpollNumbers
<1> HIDE DEF a, b
<1>7. a * (Cardinality(A(S)) + Cardinality(A(D))) + b * (Cardinality(B(S)) + Cardinality(B(D)))
        = (a * Cardinality(A(S)) + b * Cardinality(B(S))) + (a * Cardinality(A(D)) + b * Cardinality(B(D)))
  BY <1>5, <1>6, EpollArithmetic
<1> QED
  BY <1>3, <1>4, <1>7, Zenon DEF a, b

\* The listener matters only for the set it is in.
LEMMA WeightSame ==
  ASSUME NEW S, NEW l, NEW m, \A o \in S : cfg.caller \/ (o = l <=> o = m)
  PROVE  Weight(S, l) = Weight(S, m)
<1>1. /\ {o \in S : ~cfg.caller /\ o # l} = {o \in S : ~cfg.caller /\ o # m}
      /\ {o \in S : cfg.caller \/ o = l} = {o \in S : cfg.caller \/ o = m}
  OBVIOUS
<1> QED
  BY <1>1 DEF Weight

\* The epolls of one object of either kind.
LEMMA EpollUnits ==
  /\ EpollsOf(TRUE) * 0 + EpollsOf(FALSE) * 1 = EpollsOf(FALSE)
  /\ EpollsOf(TRUE) * 1 + EpollsOf(FALSE) * 0 = EpollsOf(TRUE)
<1> DEFINE a == EpollsOf(TRUE)
           b == EpollsOf(FALSE)
<1>1. (a = 0 /\ b = 0) \/ (a = 1 /\ b = 2)
  BY EpollNumbers
<1> HIDE DEF a, b
<1>2. a * 0 + b * 1 = b /\ a * 1 + b * 0 = a
  BY <1>1
<1> QED
  BY <1>2, Zenon DEF a, b

\* One object more.
LEMMA WeightAdd ==
  ASSUME NEW S \in SUBSET Objs, NEW o \in Objs \ S, NEW l
  PROVE  /\ (cfg.caller \/ o = l) => Weight(S \cup {o}, l) = Weight(S, l) + EpollsOf(FALSE)
         /\ ~(cfg.caller \/ o = l) => Weight(S \cup {o}, l) = Weight(S, l) + EpollsOf(TRUE)
<1>1. Weight(S \cup {o}, l) = Weight(S, l) + Weight({o}, l)
  BY WeightSplit
<1>2. Cardinality({o}) = 1 /\ Cardinality({}) = 0
  BY FS_Singleton, FS_EmptySet
<1>3. CASE cfg.caller \/ o = l
  <2>1. {p \in {o} : ~cfg.caller /\ p # l} = {} /\ {p \in {o} : cfg.caller \/ p = l} = {o}
    BY <1>3
  <2>2. Weight({o}, l) = EpollsOf(TRUE) * 0 + EpollsOf(FALSE) * 1
    BY <1>2, <2>1, Zenon DEF Weight
  <2>3. Weight({o}, l) = EpollsOf(FALSE)
    BY <2>2, EpollUnits, Zenon
  <2> QED
    BY <1>1, <1>3, <2>3
<1>4. CASE ~(cfg.caller \/ o = l)
  <2>1. {p \in {o} : ~cfg.caller /\ p # l} = {o} /\ {p \in {o} : cfg.caller \/ p = l} = {}
    BY <1>4
  <2>2. Weight({o}, l) = EpollsOf(TRUE) * 1 + EpollsOf(FALSE) * 0
    BY <1>2, <2>1, Zenon DEF Weight
  <2>3. Weight({o}, l) = EpollsOf(TRUE)
    BY <2>2, EpollUnits, Zenon
  <2> QED
    BY <1>1, <1>4, <2>3
<1> QED
  BY <1>3, <1>4

-----------------------------------------------------------------------------
(* Settle.                                                                 *)

\* The destructors close what the objects without a pointer refer to, and
\* nothing else.
LEMMA SettleObjects ==
  ASSUME NEW ls, NEW c, NEW ps, NEW objs, NEW t, NEW e,
         Rest, ObjectsOK(ls, c, ps, objs), t \in [Descs -> DescStates],
         Settle(ls, c, ps, objs, t, e)
  PROVE  /\ listening_sock' = ls /\ conn' = c /\ pipes' = ps
         /\ cfg' = cfg /\ force_break' = force_break
         /\ reading' \subseteq ps /\ inbox' \subseteq Descs /\ clogged' \subseteq Descs
         /\ Live' = Pointers(ls, c, ps)
         /\ ObjectsOK(ls, c, ps, m_bind_socket')
         /\ table' \in [Descs -> DescStates]
         /\ \A o \in Pointers(ls, c, ps) :
              m_bind_socket'[o] = objs[o] /\ table'[objs[o]] = t[objs[o]]
         /\ Left(m_bind_socket', table') \subseteq Left(objs, t)
<1> DEFINE dead == {o \in Objs : objs[o] # NoDesc /\ o \notin ps \cup {ls, c}}
<1>1. /\ listening_sock' = ls /\ conn' = c /\ pipes' = ps
      /\ cfg' = cfg /\ force_break' = force_break
      /\ reading' = reading \cap ps
      /\ m_bind_socket' = [o \in Objs |-> IF o \in dead THEN NoDesc ELSE objs[o]]
      /\ table' = [d \in Descs |-> IF \E o \in dead : objs[o] = d THEN Closed ELSE t[d]]
      /\ inbox' = {d \in inbox : table'[d] \in InUse}
      /\ clogged' = {d \in clogged : table'[d] \in InUse}
  BY DEF Settle
<1>2. reading' \subseteq ps /\ inbox' \subseteq Descs /\ clogged' \subseteq Descs
  BY <1>1 DEF Rest
<1>3. /\ objs \in [Objs -> Descs \cup {NoDesc}]
      /\ ps \subseteq Objs /\ Pointers(ls, c, ps) \subseteq Objs
      /\ \A o \in Pointers(ls, c, ps) : objs[o] # NoDesc
      /\ \A o, p \in Objs : objs[o] # NoDesc /\ objs[o] = objs[p] => o = p
  BY DEF ObjectsOK
<1>4. \A o \in Objs : o \in dead <=> objs[o] # NoDesc /\ o \notin Pointers(ls, c, ps)
  BY SocketsAssumption DEF Pointers
<1> HIDE DEF dead
<1>5. \A o \in Pointers(ls, c, ps) : o \in Objs /\ m_bind_socket'[o] = objs[o] /\ objs[o] \in Descs
  BY <1>1, <1>3, <1>4
<1>6. \A o \in Objs \ Pointers(ls, c, ps) : m_bind_socket'[o] = NoDesc
  BY <1>1, <1>3, <1>4
<1>7. m_bind_socket' \in [Objs -> Descs \cup {NoDesc}]
  BY <1>1, <1>3
<1>8. Live' = Pointers(ls, c, ps)
  BY <1>3, <1>5, <1>6 DEF Live
<1>9. ObjectsOK(ls, c, ps, m_bind_socket')
  <2>1. \A o \in Pointers(ls, c, ps) : m_bind_socket'[o] # NoDesc
    BY <1>3, <1>5
  <2>2. ASSUME NEW o \in Objs, NEW p \in Objs, m_bind_socket'[o] # NoDesc,
               m_bind_socket'[o] = m_bind_socket'[p]
        PROVE  o = p
    BY <1>3, <1>5, <1>6, <2>2
  <2> QED
    BY <1>3, <1>7, <2>1, <2>2 DEF ObjectsOK
<1>10. Closed \in DescStates /\ Closed \notin InUse
  BY DEF Closed, DescStates, InUse
<1>11. table' \in [Descs -> DescStates]
  BY <1>1, <1>10
<1>12. \A o \in Pointers(ls, c, ps) : table'[objs[o]] = t[objs[o]]
  <2> SUFFICES ASSUME NEW o \in Pointers(ls, c, ps) PROVE table'[objs[o]] = t[objs[o]]
    OBVIOUS
  <2>1. ~ \E p \in dead : objs[p] = objs[o]
    <3>1. ASSUME NEW p \in dead, objs[p] = objs[o] PROVE FALSE
      <4>1. p \in Objs
        BY DEF dead
      <4>2. p \notin Pointers(ls, c, ps)
        BY <1>4, <4>1
      <4> QED
        BY <1>3, <3>1, <4>1, <4>2
    <3> QED
      BY <3>1
  <2> QED
    BY <1>1, <1>5, <2>1
<1>13. Left(m_bind_socket', table') \subseteq Left(objs, t)
  <2> SUFFICES ASSUME NEW d \in Left(m_bind_socket', table') PROVE d \in Left(objs, t)
    OBVIOUS
  <2>1. d \in Descs /\ table'[d] \in InUse /\ \A o \in Objs : m_bind_socket'[o] # d
    BY DEF Left
  <2>2. ~ (\E p \in dead : objs[p] = d) /\ table'[d] = t[d]
    BY <1>1, <1>10, <2>1
  <2>3. \A o \in Objs : objs[o] # d
    <3>1. ASSUME NEW o \in Objs, objs[o] = d PROVE FALSE
      <4>1. d # NoDesc
        BY <2>1, SocketsAssumption
      <4>2. o \notin dead
        BY <2>2, <3>1
      <4>3. m_bind_socket'[o] = objs[o]
        BY <1>1, <4>2
      <4> QED
        BY <2>1, <3>1, <4>3
    <3> QED
      BY <3>1
  <2> QED
    BY <2>1, <2>2, <2>3 DEF Left
<1> QED
  BY <1>1, <1>2, <1>8, <1>9, <1>5, <1>11, <1>12, <1>13

\* The destructors release the epolls of the objects without a pointer.  The
\* listener l of the count may be the old one or the new one, as long as it
\* makes no difference for those that go, nor for those that stay.
LEMMA SettleEpolls ==
  ASSUME NEW ls, NEW c, NEW ps, NEW objs, NEW t, NEW e, NEW l, NEW k \in Nat,
         ObjectsOK(ls, c, ps, objs), Settle(ls, c, ps, objs, t, e), ~force_break,
         e = Weight({o \in Objs : objs[o] # NoDesc}, l) + k,
         \A o \in Objs : objs[o] # NoDesc =>
           IF o \in Pointers(ls, c, ps) THEN cfg.caller \/ (o = l <=> o = ls)
           ELSE cfg.caller \/ (o = l <=> o = listening_sock)
  PROVE  epolls' = Weight(Pointers(ls, c, ps), ls) + k
<1> DEFINE dead == {o \in Objs : objs[o] # NoDesc /\ o \notin ps \cup {ls, c}}
           stay == Pointers(ls, c, ps)
<1>1. epolls' = e - EpollsOwned(dead)
  BY DEF Settle
<1>2. EpollsOwned(dead) = Weight(dead, listening_sock)
  BY OwnedIsWeight
<1>3. /\ dead \in SUBSET Objs /\ stay \in SUBSET Objs /\ stay \cap dead = {}
      /\ {o \in Objs : objs[o] # NoDesc} = stay \cup dead
      /\ \A o \in dead : objs[o] # NoDesc /\ o \notin stay
      /\ \A o \in stay : objs[o] # NoDesc
  BY SocketsAssumption DEF ObjectsOK, Pointers
<1> HIDE DEF dead, stay
<1>4. Weight(stay \cup dead, l) = Weight(stay, l) + Weight(dead, l)
  BY <1>3, WeightSplit
<1>5. Weight(dead, l) = Weight(dead, listening_sock)
  <2>1. \A o \in dead : cfg.caller \/ (o = l <=> o = listening_sock)
    BY <1>3 DEF stay
  <2> QED
    BY <2>1, WeightSame
<1>6. Weight(stay, l) = Weight(stay, ls)
  <2>1. \A o \in stay : cfg.caller \/ (o = l <=> o = ls)
    BY <1>3 DEF stay
  <2> QED
    BY <2>1, WeightSame
<1>7. Weight(stay, ls) \in Nat /\ Weight(dead, listening_sock) \in Nat
  BY <1>3, WeightType
<1>8. e = Weight(stay, ls) + Weight(dead, listening_sock) + k
  BY <1>3, <1>4, <1>5, <1>6
<1>9. epolls' = Weight(stay, ls) + k
  BY <1>1, <1>2, <1>7, <1>8
<1> QED
  BY <1>9 DEF stay

\* What a step must hand to Settle.
EpollsBefore(m, ls, c, ps, objs, e) ==
  ~force_break =>
    \E l \in Objs \cup {NoObj}, k \in 0..EpollsOf(FALSE) :
      /\ e = Weight({o \in Objs : objs[o] # NoDesc}, l) + k
      /\ m \notin Ended => k = 0
      /\ \A o \in Objs : objs[o] # NoDesc =>
           IF o \in Pointers(ls, c, ps) THEN cfg.caller \/ (o = l <=> o = ls)
           ELSE cfg.caller \/ (o = l <=> o = listening_sock)

LEMMA SettleInv ==
  ASSUME NEW ls, NEW c, NEW ps, NEW objs, NEW t, NEW e,
         IInv, Settle(ls, c, ps, objs, t, e),
         ObjectsOK(ls, c, ps, objs),
         MainOK(main', ls, c, ps),
         OwnersOK(main', ls, c, ps, objs, t),
         LeftOK(main', objs, t),
         EpollsBefore(main', ls, c, ps, objs, e)
  PROVE  IInv'
<1>1. Rest /\ t \in [Descs -> DescStates]
  BY DEF IInv, OwnersOK
<1>2. /\ listening_sock' = ls /\ conn' = c /\ pipes' = ps
      /\ cfg' = cfg /\ force_break' = force_break
      /\ reading' \subseteq ps /\ inbox' \subseteq Descs /\ clogged' \subseteq Descs
      /\ Live' = Pointers(ls, c, ps)
      /\ ObjectsOK(ls, c, ps, m_bind_socket')
      /\ table' \in [Descs -> DescStates]
      /\ \A o \in Pointers(ls, c, ps) :
           m_bind_socket'[o] = objs[o] /\ table'[objs[o]] = t[objs[o]]
      /\ Left(m_bind_socket', table') \subseteq Left(objs, t)
  BY <1>1, SettleObjects
<1>3. Pointers(ls, c, ps) \in SUBSET Objs
  BY DEF ObjectsOK
<1>4. epolls' \in Nat
  <2>1. CASE force_break
    BY <2>1 DEF Settle
  <2>2. CASE ~force_break
    <3>1. PICK l \in Objs \cup {NoObj}, k \in 0..EpollsOf(FALSE) :
            /\ e = Weight({o \in Objs : objs[o] # NoDesc}, l) + k
            /\ \A o \in Objs : objs[o] # NoDesc =>
                 IF o \in Pointers(ls, c, ps) THEN cfg.caller \/ (o = l <=> o = ls)
                 ELSE cfg.caller \/ (o = l <=> o = listening_sock)
      BY <2>2 DEF EpollsBefore
    <3>2. k \in Nat
      BY EpollNumbers
    <3>3. epolls' = Weight(Pointers(ls, c, ps), ls) + k
      BY <2>2, <3>1, <3>2, SettleEpolls
    <3> QED
      BY <1>3, <3>2, <3>3, WeightType
  <2> QED
    BY <2>1, <2>2
<1>5. Rest'
  BY <1>1, <1>2, <1>4 DEF Rest
<1>6. ObjectsOK(listening_sock, conn, pipes, m_bind_socket)'
  BY <1>2 DEF ObjectsOK, Pointers
<1>7. (Live = Pointers(listening_sock, conn, pipes))'
  BY <1>2 DEF Pointers
<1>8. MainOK(main, listening_sock, conn, pipes)'
  BY <1>2 DEF MainOK, Pointers, Users
<1>9. OwnersOK(main, listening_sock, conn, pipes, m_bind_socket, table)'
  <2>1. \A o \in Pointers(ls, c, ps) : table'[m_bind_socket'[o]] = t[objs[o]]
    BY <1>2
  <2>2. Users(c, ps) \subseteq Pointers(ls, c, ps)
    BY DEF Users, Pointers
  <2>3. Usable' = Usable
    BY <1>2 DEF Usable, Srt
  <2>4. /\ \A o \in Pointers(ls, c, ps) : table'[m_bind_socket'[o]] = "free" =>
             main' = "draining" /\ o = ls /\ ~cfg.caller
        /\ \A o \in Users(c, ps) : table'[m_bind_socket'[o]] \in Usable
    BY <2>1, <2>2 DEF OwnersOK
  <2> QED
    BY <1>2, <2>3, <2>4 DEF OwnersOK, Pointers, Users
<1>10. LeftOK(main, m_bind_socket, table)'
  <2>1. LeftOK(main', m_bind_socket', table')
    BY <1>2 DEF LeftOK
  <2> QED
    BY <2>1 DEF LeftOK, Left, Ended, InUse
<1>11. EpollsOK(main, Live, listening_sock, epolls)'
  <2>1. EpollsOf(FALSE)' = EpollsOf(FALSE) /\ EpollsOf(TRUE)' = EpollsOf(TRUE)
    BY <1>2 DEF EpollsOf, Srt
  <2>2. Weight(Live, listening_sock)' = Weight(Pointers(ls, c, ps), ls)
    BY <1>2, <2>1 DEF Weight
  <2>3. CASE force_break
    BY <1>2, <2>3 DEF EpollsOK
  <2>4. CASE ~force_break
    <3>1. PICK l \in Objs \cup {NoObj}, k \in 0..EpollsOf(FALSE) :
            /\ e = Weight({o \in Objs : objs[o] # NoDesc}, l) + k
            /\ main' \notin Ended => k = 0
            /\ \A o \in Objs : objs[o] # NoDesc =>
                 IF o \in Pointers(ls, c, ps) THEN cfg.caller \/ (o = l <=> o = ls)
                 ELSE cfg.caller \/ (o = l <=> o = listening_sock)
      BY <2>4 DEF EpollsBefore
    <3>2. k \in Nat
      BY EpollNumbers
    <3>3. epolls' = Weight(Pointers(ls, c, ps), ls) + k
      BY <2>4, <3>1, <3>2, SettleEpolls
    <3>4. k \in 0..EpollsOf(FALSE)' /\ epolls' = Weight(Live, listening_sock)' + k
      BY <2>1, <2>2, <3>3
    <3> QED
      BY <3>1, <3>4 DEF EpollsOK, Ended
  <2> QED
    BY <2>3, <2>4
<1> QED
  BY <1>5, <1>6, <1>7, <1>8, <1>9, <1>10, <1>11 DEF IInv

-----------------------------------------------------------------------------
(* What the actions have in common.                                        *)

LEMMA Basics ==
  ASSUME IInv
  PROVE  /\ Live = {o \in Objs : m_bind_socket[o] # NoDesc}
         /\ Live = Pointers(listening_sock, conn, pipes)
         /\ pipes \subseteq Live /\ Live \in SUBSET Objs
         /\ listening_sock # NoObj => listening_sock \in Live
         /\ conn # NoObj => conn \in Live
         /\ \A o \in Live : m_bind_socket[o] \in Descs
         /\ NoObj \notin Objs /\ NoDesc \notin Descs
         /\ m_bind_socket \in [Objs -> Descs \cup {NoDesc}]
         /\ table \in [Descs -> DescStates]
         /\ cfg \in Config /\ epolls \in Nat
<1>1. NoObj \notin Objs /\ NoDesc \notin Descs
  BY SocketsAssumption
<1>2. /\ m_bind_socket \in [Objs -> Descs \cup {NoDesc}]
      /\ pipes \subseteq Objs
      /\ Live = Pointers(listening_sock, conn, pipes)
      /\ table \in [Descs -> DescStates]
      /\ cfg \in Config /\ epolls \in Nat
  BY DEF IInv, ObjectsOK, OwnersOK, Rest
<1>3. Live = {o \in Objs : m_bind_socket[o] # NoDesc}
  BY DEF Live
<1>4. \A o \in Live : m_bind_socket[o] \in Descs
  BY <1>2, <1>3
<1>5. /\ pipes \subseteq Live
      /\ listening_sock # NoObj => listening_sock \in Live
      /\ conn # NoObj => conn \in Live
  BY <1>1, <1>2 DEF Pointers
<1> QED
  BY <1>1, <1>2, <1>3, <1>4, <1>5

\* Pointers may be dropped, or given to another holder.
LEMMA KeptObjects ==
  ASSUME IInv, NEW ls, NEW c, NEW ps \in SUBSET Objs, Pointers(ls, c, ps) \subseteq Live
  PROVE  ObjectsOK(ls, c, ps, m_bind_socket)
BY Basics DEF IInv, ObjectsOK

\* A descriptor that is free belongs to nobody, as long as sockets are made.
LEMMA FreeIsUnowned ==
  ASSUME IInv, main \notin Ended, NEW d \in Free
  PROVE  /\ d \in Descs /\ table[d] = "free"
         /\ \A o \in Objs : m_bind_socket[o] # d
<1>1. d \in Descs /\ table[d] = "free"
  BY DEF Free, Unused
<1>2. ASSUME NEW o \in Objs, m_bind_socket[o] = d PROVE FALSE
  <2>1. o \in Live
    BY <1>1, <1>2, Basics
  <2>2. o \in Pointers(listening_sock, conn, pipes)
    BY <2>1, Basics
  <2> QED
    BY <1>1, <1>2, <2>2 DEF IInv, OwnersOK, Ended
<1> QED
  BY <1>1, <1>2

LEMMA AddedObject ==
  ASSUME IInv, main \notin Ended, NEW o \in NewObj, NEW d \in Free,
         NEW ls, NEW c, NEW ps \in SUBSET Objs, Pointers(ls, c, ps) \subseteq Live \cup {o}
  PROVE  /\ o \in Objs /\ o \notin Live
         /\ ObjectsOK(ls, c, ps, [m_bind_socket EXCEPT ![o] = d])
         /\ {p \in Objs : [m_bind_socket EXCEPT ![o] = d][p] # NoDesc} = Live \cup {o}
<1> DEFINE objs == [m_bind_socket EXCEPT ![o] = d]
<1>1. o \in Objs /\ o \notin Live
  BY DEF NewObj
<1>2. d \in Descs /\ \A p \in Objs : m_bind_socket[p] # d
  BY FreeIsUnowned
<1>3. /\ objs \in [Objs -> Descs \cup {NoDesc}]
      /\ objs[o] = d /\ \A p \in Objs \ {o} : objs[p] = m_bind_socket[p]
  BY <1>1, <1>2, Basics
<1> HIDE DEF objs
<1>4. {p \in Objs : objs[p] # NoDesc} = Live \cup {o}
  BY <1>1, <1>2, <1>3, Basics
<1>5. \A p \in Pointers(ls, c, ps) : p \in Objs /\ objs[p] # NoDesc
  BY <1>4
<1>6. \A p, q \in Objs : objs[p] # NoDesc /\ objs[p] = objs[q] => p = q
  BY <1>2, <1>3 DEF IInv, ObjectsOK
<1>7. ObjectsOK(ls, c, ps, objs)
  BY <1>3, <1>5, <1>6 DEF ObjectsOK
<1> QED
  BY <1>1, <1>4, <1>7 DEF objs

\* Nothing is left when an object takes the new descriptor ...
LEMMA LeftNew ==
  ASSUME IInv, main \notin Ended, NEW o \in NewObj, NEW d \in Free, NEW s
  PROVE  Left([m_bind_socket EXCEPT ![o] = d], [table EXCEPT ![d] = s]) = {}
<1> SUFFICES ASSUME NEW x \in Left([m_bind_socket EXCEPT ![o] = d], [table EXCEPT ![d] = s])
             PROVE  FALSE
  OBVIOUS
<1> DEFINE objs == [m_bind_socket EXCEPT ![o] = d]
           t == [table EXCEPT ![d] = s]
<1>1. o \in Objs /\ m_bind_socket[o] = NoDesc
  BY Basics DEF NewObj
<1>2. x \in Descs /\ t[x] \in InUse /\ \A p \in Objs : objs[p] # x
  BY DEF Left
<1>3. objs[o] = d /\ \A p \in Objs \ {o} : objs[p] = m_bind_socket[p]
  BY <1>1, Basics
<1>4. x # d /\ t[x] = table[x]
  BY <1>1, <1>2, <1>3, Basics
<1>5. \A p \in Objs : m_bind_socket[p] # x
  BY <1>1, <1>2, <1>3, Basics
<1>6. x \in Left(m_bind_socket, table)
  BY <1>2, <1>4, <1>5 DEF Left
<1> QED
  BY <1>6 DEF IInv, LeftOK

\* ... that one when it does not ...
LEMMA LeftStray ==
  ASSUME IInv, main \notin Ended, NEW d \in Free, NEW s
  PROVE  Left(m_bind_socket, [table EXCEPT ![d] = s]) \subseteq {d}
<1> SUFFICES ASSUME NEW x \in Left(m_bind_socket, [table EXCEPT ![d] = s]), x # d
             PROVE  FALSE
  OBVIOUS
<1>1. x \in Left(m_bind_socket, table)
  BY Basics DEF Left
<1> QED
  BY <1>1 DEF IInv, LeftOK

\* ... and the same as before when an object's own descriptor changes.
LEMMA LeftOwn ==
  ASSUME IInv, NEW o \in Live, NEW s
  PROVE  Left(m_bind_socket, [table EXCEPT ![m_bind_socket[o]] = s]) \subseteq Left(m_bind_socket, table)
<1> SUFFICES ASSUME NEW x \in Left(m_bind_socket, [table EXCEPT ![m_bind_socket[o]] = s])
             PROVE  x \in Left(m_bind_socket, table)
  OBVIOUS
<1>1. x \in Descs /\ x # m_bind_socket[o]
  BY Basics DEF Left
<1> QED
  BY <1>1, Basics DEF Left

\* No object is made, and the listener stays what it is for those that stay;
\* j epolls are left by an exception.
LEMMA KeptEpolls ==
  ASSUME IInv, NEW m, NEW ls, NEW c, NEW ps, NEW e, NEW j \in 0..EpollsOf(FALSE),
         e = epolls + j,
         main \notin Ended \/ j = 0,
         m \notin Ended => j = 0 /\ main \notin Ended,
         \A o \in Pointers(ls, c, ps) : cfg.caller \/ (o = listening_sock <=> o = ls)
  PROVE  EpollsBefore(m, ls, c, ps, m_bind_socket, e)
<1> SUFFICES ASSUME ~force_break
             PROVE  EpollsBefore(m, ls, c, ps, m_bind_socket, e)
  BY DEF EpollsBefore
<1>1. PICK k \in 0..EpollsOf(FALSE) :
        epolls = Weight(Live, listening_sock) + k /\ (main \notin Ended => k = 0)
  BY DEF IInv, EpollsOK
<1>2. Weight(Live, listening_sock) \in Nat
  BY Basics, WeightType
<1>3. j \in Nat /\ k \in Nat /\ k + j \in 0..EpollsOf(FALSE)
  <2> DEFINE n == EpollsOf(FALSE)
  <2>1. n \in Nat
    BY EpollNat, Zenon
  <2>2. k \in 0..n /\ j \in 0..n /\ (k = 0 \/ j = 0)
    BY <1>1
  <2> HIDE DEF n
  <2>3. k \in Nat /\ j \in Nat /\ k + j \in 0..n
    BY <2>1, <2>2
  <2> QED
    BY <2>3 DEF n
<1>4. e = Weight(Live, listening_sock) + (k + j) /\ (m \notin Ended => k + j = 0)
  BY <1>1, <1>2, <1>3
<1>5. listening_sock \in Objs \cup {NoObj}
  BY Basics
<1>6. Live = {o \in Objs : m_bind_socket[o] # NoDesc}
  BY Basics
<1> QED
  BY <1>3, <1>4, <1>5, <1>6 DEF EpollsBefore

\* An object is made, with its epolls.  l is the listener afterwards, if there
\* is one.
LEMMA AddedEpolls ==
  ASSUME IInv, main \notin Ended, NEW o \in NewObj, NEW d \in Free,
         NEW m, NEW ls, NEW c, NEW ps \in SUBSET Objs, Pointers(ls, c, ps) \subseteq Live \cup {o},
         NEW l \in Objs \cup {NoObj}, NEW e,
         e = epolls + (IF cfg.caller \/ o = l THEN EpollsOf(FALSE) ELSE EpollsOf(TRUE)),
         \A p \in Live : cfg.caller \/ (p = l <=> p = listening_sock),
         \A p \in Pointers(ls, c, ps) : cfg.caller \/ (p = l <=> p = ls),
         cfg.caller \/ o \in Pointers(ls, c, ps)
  PROVE  EpollsBefore(m, ls, c, ps, [m_bind_socket EXCEPT ![o] = d], e)
<1> SUFFICES ASSUME ~force_break
             PROVE  EpollsBefore(m, ls, c, ps, [m_bind_socket EXCEPT ![o] = d], e)
  BY DEF EpollsBefore
<1> DEFINE objs == [m_bind_socket EXCEPT ![o] = d]
<1>1. o \in Objs /\ o \notin Live /\ {p \in Objs : objs[p] # NoDesc} = Live \cup {o}
  BY AddedObject
<1> HIDE DEF objs
<1>2. epolls = Weight(Live, listening_sock)
  <2>1. PICK k \in 0..EpollsOf(FALSE) :
          epolls = Weight(Live, listening_sock) + k /\ (main \notin Ended => k = 0)
    BY DEF IInv, EpollsOK
  <2>2. Weight(Live, listening_sock) \in Nat
    BY Basics, WeightType
  <2> QED
    BY <2>1, <2>2
<1>3. Weight(Live, l) = Weight(Live, listening_sock)
  BY WeightSame
<1>4. Weight(Live \cup {o}, l) = e
  <2>1. Live \in SUBSET Objs /\ o \in Objs \ Live
    BY <1>1, Basics
  <2>2. CASE cfg.caller \/ o = l
    <3>1. Weight(Live \cup {o}, l) = Weight(Live, l) + EpollsOf(FALSE)
      BY <2>1, <2>2, WeightAdd, Zenon
    <3> QED
      BY <1>2, <1>3, <2>2, <3>1, Zenon
  <2>3. CASE ~(cfg.caller \/ o = l)
    <3>1. Weight(Live \cup {o}, l) = Weight(Live, l) + EpollsOf(TRUE)
      BY <2>1, <2>3, WeightAdd, Zenon
    <3> QED
      BY <1>2, <1>3, <2>3, <3>1, Zenon
  <2> QED
    BY <2>2, <2>3
<1>5. e \in Nat
  <2>1. Live \cup {o} \in SUBSET Objs
    BY <1>1, Basics
  <2>2. Weight(Live \cup {o}, l) \in Nat
    BY <2>1, WeightType
  <2> QED
    BY <1>4, <2>2
<1>6. e = Weight({p \in Objs : objs[p] # NoDesc}, l) + 0 /\ 0 \in 0..EpollsOf(FALSE)
  <2>1. 0 \in 0..EpollsOf(FALSE)
    BY EpollNat, Zenon
  <2>2. \A n \in Nat : n = n + 0
    OBVIOUS
  <2> QED
    BY <1>1, <1>4, <1>5, <2>1, <2>2, Zenon
<1>7. \A p \in Objs : objs[p] # NoDesc =>
        IF p \in Pointers(ls, c, ps) THEN cfg.caller \/ (p = l <=> p = ls)
        ELSE cfg.caller \/ (p = l <=> p = listening_sock)
  <2> SUFFICES ASSUME NEW p \in Objs, objs[p] # NoDesc, ~cfg.caller
               PROVE  IF p \in Pointers(ls, c, ps) THEN p = l <=> p = ls
                      ELSE p = l <=> p = listening_sock
    OBVIOUS
  <2>1. p \in Live \cup {o}
    BY <1>1
  <2>2. CASE p \in Pointers(ls, c, ps)
    BY <2>2
  <2>3. CASE p \notin Pointers(ls, c, ps)
    BY <2>1, <2>3
  <2> QED
    BY <2>2, <2>3
<1>8. EpollsBefore(m, ls, c, ps, objs, e)
  BY <1>6, <1>7, Zenon DEF EpollsBefore
<1> QED
  BY <1>8 DEF objs

-----------------------------------------------------------------------------
(* The steps of main.                                                      *)

\* Before a constructor runs only the pipes hold sockets.
LEMMA Constructing ==
  ASSUME IInv, MustConstruct
  PROVE  /\ main = "create" /\ main \notin Ended
         /\ listening_sock = NoObj /\ conn = NoObj /\ Live = pipes
         /\ pipes \in SUBSET Objs /\ NoObj \notin pipes
<1>1. main = "create" /\ listening_sock = NoObj /\ conn = NoObj
  BY DEF IInv, MainOK, MustConstruct
<1> QED
  BY <1>1, Basics DEF Pointers, Ended

LEMMA ConstructStep ==
  ASSUME IInv, Construct
  PROVE  IInv'
<1>1. MustConstruct
  BY DEF Construct
<1>2. PICK o \in NewObj, d \in Free : ConstructSrtOrTcp(o, d) \/ ConstructUdp(o, d)
  BY DEF Construct
<1>3. /\ main = "create" /\ main \notin Ended
      /\ listening_sock = NoObj /\ conn = NoObj /\ Live = pipes
      /\ pipes \in SUBSET Objs /\ NoObj \notin pipes
  BY <1>1, Constructing
<1>4. o \in Objs /\ o \notin Live /\ o # NoObj
  BY Basics DEF NewObj
<1>5. d \in Descs /\ table[d] = "free" /\ \A p \in Objs : m_bind_socket[p] # d
  BY <1>3, FreeIsUnowned
<1> DEFINE objs == [m_bind_socket EXCEPT ![o] = d]
<1>6. objs[o] = d /\ \A p \in pipes : objs[p] = m_bind_socket[p] /\ m_bind_socket[p] # d
  BY <1>3, <1>4, <1>5, Basics
<1>7. \A p \in pipes : /\ m_bind_socket[p] \in Descs /\ table[m_bind_socket[p]] \in Usable
                       /\ p \in Users(conn, pipes)
  BY <1>3, Basics DEF IInv, OwnersOK, Users
<1>8. Usable \cap {"free"} = {}
  BY DEF Usable
<1>9. CASE ConstructSrtOrTcp(o, d)
  <2> DEFINE t == [table EXCEPT ![d] = "open"]
             e == epolls + EpollsOf(FALSE)
  <2>1. /\ cfg.kind # "udp"
        /\ main' = IF cfg.caller THEN "establish" ELSE "listen"
        /\ Settle(o, conn, pipes, objs, t, e)
    BY <1>9 DEF ConstructSrtOrTcp
  <2>2. Pointers(o, conn, pipes) = pipes \cup {o} /\ Users(conn, pipes) = pipes
    BY <1>3, <1>4 DEF Pointers, Users
  <2>3. ObjectsOK(o, conn, pipes, objs)
    BY <1>3, <2>2, AddedObject
  <2>4. MainOK(main', o, conn, pipes)
    BY <1>3, <1>4, <2>1, <2>2 DEF MainOK, MainStates
  <2>5. LeftOK(main', objs, t)
    BY <1>3, LeftNew DEF LeftOK
  <2>6. EpollsBefore(main', o, conn, pipes, objs, e)
    <3>1. e = epolls + (IF cfg.caller \/ o = o THEN EpollsOf(FALSE) ELSE EpollsOf(TRUE))
      BY Zenon
    <3>2. \A p \in Live : cfg.caller \/ (p = o <=> p = listening_sock)
      BY <1>3, <1>4
    <3>3. o \in Pointers(o, conn, pipes) /\ Pointers(o, conn, pipes) \subseteq Live \cup {o}
      BY <1>3, <2>2
    <3> HIDE DEF e
    <3> QED
      BY <1>3, <1>4, <3>1, <3>2, <3>3, AddedEpolls
  <2> HIDE DEF objs, e
  <2>7. t \in [Descs -> DescStates] /\ t[d] = "open" /\ \A x \in Descs \ {d} : t[x] = table[x]
    BY <1>5, Basics DEF DescStates
  <2> HIDE DEF t
  <2>8. OwnersOK(main', o, conn, pipes, objs, t)
    BY <1>6, <1>7, <1>8, <2>2, <2>7 DEF OwnersOK
  <2> QED
    BY <2>1, <2>3, <2>4, <2>5, <2>6, <2>8, SettleInv
<1>10. CASE ConstructUdp(o, d)
  <2> DEFINE t == [table EXCEPT ![d] = "connected"]
  <2>1. /\ cfg.kind = "udp"
        /\ main' = "handover"
        /\ Settle(listening_sock, o, pipes, objs, t, epolls)
    BY <1>10 DEF ConstructUdp
  <2>2. /\ Pointers(listening_sock, o, pipes) = pipes \cup {o}
        /\ Users(o, pipes) = pipes \cup {o}
    BY <1>3, <1>4 DEF Pointers, Users
  <2>3. ObjectsOK(listening_sock, o, pipes, objs)
    BY <1>3, <2>2, AddedObject
  <2>4. MainOK(main', listening_sock, o, pipes)
    BY <1>3, <1>4, <2>1, <2>2 DEF MainOK, MainStates
  <2>5. LeftOK(main', objs, t)
    BY <1>3, LeftNew DEF LeftOK
  <2>6. EpollsBefore(main', listening_sock, o, pipes, objs, epolls)
    <3>1. EpollsOf(FALSE) = 0 /\ EpollsOf(TRUE) = 0
      BY <2>1 DEF EpollsOf, Srt
    <3>2. epolls = epolls + (IF cfg.caller \/ o = NoObj THEN EpollsOf(FALSE) ELSE EpollsOf(TRUE))
      <4>1. epolls = epolls + 0
        BY Basics
      <4> QED
        BY <3>1, <4>1, Zenon
    <3>3. \A p \in Live : cfg.caller \/ (p = NoObj <=> p = listening_sock)
      BY <1>3
    <3>4. /\ o \in Pointers(listening_sock, o, pipes)
          /\ Pointers(listening_sock, o, pipes) \subseteq Live \cup {o}
      BY <1>3, <2>2
    <3> HIDE DEF objs
    <3> QED
      BY <1>3, <1>4, <3>2, <3>3, <3>4, AddedEpolls DEF objs
  <2> HIDE DEF objs
  <2>7. t \in [Descs -> DescStates] /\ t[d] = "connected" /\ \A x \in Descs \ {d} : t[x] = table[x]
    BY <1>5, Basics DEF DescStates
  <2> HIDE DEF t
  <2>8. OwnersOK(main', listening_sock, o, pipes, objs, t)
    <3>1. "connected" \in Usable
      BY DEF Usable
    <3> QED
      BY <1>6, <1>7, <1>8, <2>2, <2>7, <3>1 DEF OwnersOK
  <2> QED
    BY <2>1, <2>3, <2>4, <2>5, <2>6, <2>8, SettleInv
<1> QED
  BY <1>2, <1>9, <1>10

\* An exception leaves behind descriptor d, in state s, and j epolls.
LEMMA Stray ==
  ASSUME IInv, main \notin Ended, main' = "draining",
         NEW ls \in {listening_sock, NoObj}, conn = NoObj,
         NEW d \in Free, NEW s \in DescStates, NEW j \in 0..EpollsOf(FALSE),
         Settle(ls, conn, pipes, m_bind_socket, [table EXCEPT ![d] = s], epolls + j),
         listening_sock \in pipes => cfg.caller
  PROVE  IInv'
<1> DEFINE t == [table EXCEPT ![d] = s]
<1>1. Pointers(ls, conn, pipes) \subseteq Live /\ pipes \in SUBSET Objs
  BY Basics DEF Pointers
<1>2. ObjectsOK(ls, conn, pipes, m_bind_socket)
  BY <1>1, KeptObjects
<1>3. MainOK(main', ls, conn, pipes)
  BY DEF IInv, MainOK, MainStates, Users
<1>4. d \in Descs /\ \A p \in Objs : m_bind_socket[p] # d
  BY FreeIsUnowned
<1>5. t \in [Descs -> DescStates] /\ \A x \in Descs \ {d} : t[x] = table[x]
  BY <1>4, Basics
<1>6. LeftOK(main', m_bind_socket, t)
  BY LeftStray DEF LeftOK, Ended
<1> HIDE DEF t
<1>7. OwnersOK(main', ls, conn, pipes, m_bind_socket, t)
  <2>1. \A o \in Live : m_bind_socket[o] \in Descs /\ m_bind_socket[o] # d
    BY <1>4, Basics
  <2>2. /\ \A o \in Live : table[m_bind_socket[o]] # "free"
        /\ \A o \in Users(conn, pipes) : table[m_bind_socket[o]] \in Usable
    BY Basics DEF IInv, OwnersOK, Ended
  <2>3. Users(conn, pipes) \subseteq Live
    BY Basics DEF Users
  <2> QED
    BY <1>1, <1>5, <2>1, <2>2, <2>3 DEF OwnersOK
<1>8. EpollsBefore(main', ls, conn, pipes, m_bind_socket, epolls + j)
  <2>1. \A o \in Pointers(ls, conn, pipes) : cfg.caller \/ (o = listening_sock <=> o = ls)
    BY Basics DEF Pointers
  <2>2. main' \in Ended
    BY DEF Ended
  <2> QED
    BY <2>1, <2>2, KeptEpolls
<1>9. Settle(ls, conn, pipes, m_bind_socket, t, epolls + j)
  BY DEF t
<1> QED
  BY <1>2, <1>3, <1>6, <1>7, <1>8, <1>9, SettleInv

\* A step that makes no descriptor: pointers are dropped or given away, and
\* the descriptor of an object may change its state.
LEMMA Kept ==
  ASSUME IInv, NEW ls, NEW c, NEW ps \in SUBSET Objs, NEW t,
         Settle(ls, c, ps, m_bind_socket, t, epolls),
         Pointers(ls, c, ps) \subseteq Live,
         MainOK(main', ls, c, ps),
         OwnersOK(main', ls, c, ps, m_bind_socket, t),
         Left(m_bind_socket, t) \subseteq Left(m_bind_socket, table),
         main \in Ended => main' \in Ended,
         \A o \in Pointers(ls, c, ps) : cfg.caller \/ (o = listening_sock <=> o = ls)
  PROVE  IInv'
<1>1. ObjectsOK(ls, c, ps, m_bind_socket)
  BY KeptObjects
<1>2. LeftOK(main', m_bind_socket, t)
  BY DEF IInv, LeftOK
<1>3. EpollsBefore(main', ls, c, ps, m_bind_socket, epolls)
  <2>1. 0 \in 0..EpollsOf(FALSE)
    BY EpollNat, Zenon
  <2>2. epolls = epolls + 0
    BY Basics
  <2> QED
    BY <2>1, <2>2, KeptEpolls
<1> QED
  BY <1>1, <1>2, <1>3, SettleInv

\* Of that kind are the steps that leave the descriptors alone.
LEMMA KeptTable ==
  ASSUME IInv, NEW ls, NEW c, NEW ps \in SUBSET Objs,
         Settle(ls, c, ps, m_bind_socket, table, epolls),
         Pointers(ls, c, ps) \subseteq Live,
         MainOK(main', ls, c, ps),
         Users(c, ps) \subseteq Users(conn, pipes),
         ls \in {listening_sock, NoObj},
         main = "draining" => main' \in Ended /\ (ls = listening_sock \/ ls = NoObj),
         main' # "draining" => main # "draining" \/ Pointers(ls, c, ps) = {},
         main \in Ended => main' \in Ended,
         \A o \in Pointers(ls, c, ps) : cfg.caller \/ (o = listening_sock <=> o = ls)
  PROVE  IInv'
<1>1. OwnersOK(main', ls, c, ps, m_bind_socket, table)
  <2>1. /\ table \in [Descs -> DescStates]
        /\ \A o \in Live : table[m_bind_socket[o]] = "free" =>
             main = "draining" /\ o = listening_sock /\ ~cfg.caller
        /\ \A o \in Users(conn, pipes) : table[m_bind_socket[o]] \in Usable
    BY Basics DEF IInv, OwnersOK
  <2>2. ASSUME NEW o \in Pointers(ls, c, ps), table[m_bind_socket[o]] = "free"
        PROVE  main' = "draining" /\ o = ls /\ ~cfg.caller
    <3>1. main = "draining" /\ o = listening_sock /\ ~cfg.caller
      BY <2>1, <2>2
    <3>2. main' = "draining"
      BY <2>2, <3>1
    <3> QED
      BY <2>2, <3>1, <3>2
  <2> QED
    BY <2>1, <2>2 DEF OwnersOK
<1> QED
  BY <1>1, Kept

LEMMA ConstructThrowsStep ==
  ASSUME IInv, ConstructThrows
  PROVE  IInv'
<1>1. MustConstruct /\ main' = "draining"
  BY DEF ConstructThrows
<1>2. /\ main = "create" /\ main \notin Ended
      /\ listening_sock = NoObj /\ conn = NoObj /\ Live = pipes
      /\ pipes \in SUBSET Objs /\ NoObj \notin pipes
  BY <1>1, Constructing
<1>3. CASE Settle(listening_sock, conn, pipes, m_bind_socket, table, epolls)
  <2>1. MainOK(main', listening_sock, conn, pipes)
    BY <1>1, <1>2 DEF IInv, MainOK, MainStates
  <2>2. Pointers(listening_sock, conn, pipes) \subseteq Live
    BY Basics
  <2>3. main' \in Ended
    BY <1>1 DEF Ended
  <2> QED
    BY <1>1, <1>2, <1>3, <2>1, <2>2, <2>3, KeptTable
<1>4. CASE ConfigureThrows
  <2>1. PICK d \in Free, e \in 0..EpollsOf(FALSE) :
          Settle(listening_sock, conn, pipes, m_bind_socket, [table EXCEPT ![d] = "open"], epolls + e)
    BY <1>4 DEF ConfigureThrows
  <2>2. "open" \in DescStates
    BY DEF DescStates
  <2> QED
    BY <1>1, <1>2, <2>1, <2>2, Stray
<1>5. CASE BindThrows
  <2>1. PICK d \in Free, left \in {"open"} \cup (IF Srt THEN {Closed} ELSE {}) :
          Settle(listening_sock, conn, pipes, m_bind_socket, [table EXCEPT ![d] = left],
                 epolls + EpollsOf(FALSE))
    BY <1>5 DEF BindThrows
  <2>2. left \in DescStates
    BY DEF DescStates, Closed
  <2>3. EpollsOf(FALSE) \in 0..EpollsOf(FALSE)
    <3>1. \A n \in Nat : n \in 0..n
      OBVIOUS
    <3> QED
      BY <3>1, EpollNat, Zenon
  <2> QED
    BY <1>1, <1>2, <2>1, <2>2, <2>3, Stray
<1> QED
  BY <1>3, <1>4, <1>5 DEF ConstructThrows

\* The state of an object's own descriptor changes.
LEMMA OwnChanges ==
  ASSUME IInv, NEW o \in Live, NEW s \in DescStates
  PROVE  /\ [table EXCEPT ![m_bind_socket[o]] = s] \in [Descs -> DescStates]
         /\ [table EXCEPT ![m_bind_socket[o]] = s][m_bind_socket[o]] = s
         /\ \A p \in Live \ {o} :
              [table EXCEPT ![m_bind_socket[o]] = s][m_bind_socket[p]] = table[m_bind_socket[p]]
<1>1. /\ m_bind_socket[o] \in Descs /\ table \in [Descs -> DescStates]
      /\ \A p \in Live \ {o} : m_bind_socket[p] \in Descs /\ m_bind_socket[p] # m_bind_socket[o]
  BY Basics DEF IInv, ObjectsOK
<1> QED
  BY <1>1

LEMMA Listening ==
  ASSUME IInv, main = "listen"
  PROVE  /\ main \notin Ended /\ ~cfg.caller /\ cfg.kind # "udp" /\ conn = NoObj
         /\ listening_sock \in Live /\ listening_sock \notin pipes
         /\ Pointers(listening_sock, conn, pipes) = Live
         /\ Users(conn, pipes) = pipes
<1>1. main \notin Ended /\ ~cfg.caller /\ cfg.kind # "udp" /\ conn = NoObj /\ listening_sock # NoObj
  BY DEF IInv, MainOK, Ended
<1>2. listening_sock \in Live /\ Users(conn, pipes) = pipes
  BY <1>1, Basics DEF Users
<1>3. listening_sock \notin pipes
  BY <1>1, <1>2 DEF IInv, MainOK
<1> QED
  BY <1>1, <1>2, <1>3, Basics

LEMMA ListenChanges ==
  ASSUME IInv, main = "listen", main' \in {"establish", "draining"}, NEW s \in DescStates,
         s = "free" => main' = "draining",
         Settle(listening_sock, conn, pipes, m_bind_socket, [table EXCEPT ![Own] = s], epolls)
  PROVE  IInv'
<1> DEFINE t == [table EXCEPT ![Own] = s]
<1>1. /\ main \notin Ended /\ ~cfg.caller /\ cfg.kind # "udp" /\ conn = NoObj
      /\ listening_sock \in Live /\ listening_sock \notin pipes
      /\ Pointers(listening_sock, conn, pipes) = Live
      /\ Users(conn, pipes) = pipes
  BY Listening
<1>2. /\ t \in [Descs -> DescStates]
      /\ t[m_bind_socket[listening_sock]] = s
      /\ \A p \in Live \ {listening_sock} : t[m_bind_socket[p]] = table[m_bind_socket[p]]
      /\ Left(m_bind_socket, t) \subseteq Left(m_bind_socket, table)
  BY <1>1, OwnChanges, LeftOwn DEF Own
<1>3. Settle(listening_sock, conn, pipes, m_bind_socket, t, epolls)
  OBVIOUS
<1> HIDE DEF t
<1>4. OwnersOK(main', listening_sock, conn, pipes, m_bind_socket, t)
  <2>1. /\ \A p \in Live : table[m_bind_socket[p]] # "free"
        /\ \A p \in pipes : p \in Live /\ p # listening_sock /\ table[m_bind_socket[p]] \in Usable
    BY <1>1, Basics DEF IInv, OwnersOK, Ended
  <2> QED
    BY <1>1, <1>2, <2>1 DEF OwnersOK
<1>5. MainOK(main', listening_sock, conn, pipes)
  BY <1>1, Basics DEF IInv, MainOK, MainStates
<1>6. pipes \in SUBSET Objs
  BY Basics
<1> QED
  BY <1>1, <1>2, <1>3, <1>4, <1>5, <1>6, Kept

LEMMA ListenStep ==
  ASSUME IInv, Listen \/ ListenThrows
  PROVE  IInv'
<1>1. Closed \in DescStates /\ "listening" \in DescStates
  BY DEF Closed, DescStates
<1>2. CASE Listen
  BY <1>1, <1>2, ListenChanges DEF Listen
<1>3. CASE ListenThrows
  BY <1>1, <1>3, ListenChanges DEF ListenThrows
<1> QED
  BY <1>2, <1>3

LEMMA EstablishingFacts ==
  ASSUME IInv, Establishing
  PROVE  /\ main \notin Ended /\ conn = NoObj /\ cfg.kind # "udp"
         /\ listening_sock \in Live /\ listening_sock # NoObj
         /\ Pointers(listening_sock, conn, pipes) = Live
         /\ Users(conn, pipes) = pipes
         /\ listening_sock \in pipes => cfg.kind = "tcp" /\ cfg.caller
         /\ pipes \in SUBSET Objs /\ NoObj \notin pipes
<1>1. main \notin Ended /\ conn = NoObj /\ cfg.kind # "udp" /\ listening_sock # NoObj
  BY DEF IInv, MainOK, Ended, Establishing, MustConstruct
<1>2. /\ listening_sock \in Live /\ Users(conn, pipes) = pipes
      /\ pipes \in SUBSET Objs /\ NoObj \notin pipes
      /\ Pointers(listening_sock, conn, pipes) = Live
  BY <1>1, Basics DEF Users
<1>3. listening_sock \in pipes => cfg.kind = "tcp" /\ cfg.caller
  BY <1>2 DEF IInv, MainOK
<1> QED
  BY <1>1, <1>2, <1>3

LEMMA AcceptStep ==
  ASSUME IInv, Accept
  PROVE  IInv'
<1>1. Establishing /\ ~cfg.caller /\ table[Own] = "listening" /\ main' = "handover"
  BY DEF Accept
<1>2. /\ main \notin Ended /\ conn = NoObj /\ cfg.kind # "udp"
      /\ listening_sock \in Live /\ listening_sock # NoObj
      /\ Pointers(listening_sock, conn, pipes) = Live
      /\ listening_sock \notin pipes /\ Users(conn, pipes) = pipes
      /\ pipes \in SUBSET Objs /\ NoObj \notin pipes
  BY <1>1, EstablishingFacts
<1> DEFINE ls == IF Srt THEN listening_sock ELSE NoObj
           e == epolls + EpollsOf(TRUE)
<1>3. PICK o \in NewObj, d \in Free :
        Settle(ls, o, pipes, [m_bind_socket EXCEPT ![o] = d], [table EXCEPT ![d] = "connected"], e)
  BY DEF Accept
<1> DEFINE objs == [m_bind_socket EXCEPT ![o] = d]
           t == [table EXCEPT ![d] = "connected"]
<1>4. o \in Objs /\ o \notin Live /\ o # NoObj /\ o # listening_sock
  BY <1>2, Basics DEF NewObj
<1>5. d \in Descs /\ table[d] = "free" /\ \A p \in Objs : m_bind_socket[p] # d
  BY <1>2, FreeIsUnowned
<1>6. /\ Pointers(ls, o, pipes) \subseteq Live \cup {o} /\ o \in Pointers(ls, o, pipes)
      /\ Users(o, pipes) = pipes \cup {o}
      /\ ls \in {listening_sock, NoObj}
  BY <1>2, <1>4, Basics DEF Pointers, Users
<1>7. ObjectsOK(ls, o, pipes, objs)
  BY <1>2, <1>6, AddedObject
<1>8. LeftOK(main', objs, t)
  BY <1>2, LeftNew DEF LeftOK
<1>9. objs[o] = d /\ \A p \in Live : objs[p] = m_bind_socket[p] /\ m_bind_socket[p] # d /\ m_bind_socket[p] \in Descs
  BY <1>4, <1>5, Basics
<1>10. t \in [Descs -> DescStates] /\ t[d] = "connected" /\ \A x \in Descs \ {d} : t[x] = table[x]
  BY <1>5, Basics DEF DescStates
<1>11. EpollsBefore(main', ls, o, pipes, objs, e)
  <2>1. ~(cfg.caller \/ o = listening_sock)
    BY <1>1, <1>4
  <2>2. e = epolls + (IF cfg.caller \/ o = listening_sock THEN EpollsOf(FALSE) ELSE EpollsOf(TRUE))
    BY <2>1, Zenon
  <2>3. \A p \in Pointers(ls, o, pipes) : cfg.caller \/ (p = listening_sock <=> p = ls)
    <3>1. CASE Srt
      BY <3>1
    <3>2. CASE ~Srt
      BY <1>2, <1>4, <3>2 DEF Pointers
    <3> QED
      BY <3>1, <3>2
  <2>4. listening_sock \in Objs \cup {NoObj}
    BY Basics
  <2>5. \A p \in Live : cfg.caller \/ (p = listening_sock <=> p = listening_sock)
    OBVIOUS
  <2> HIDE DEF e, ls
  <2> QED
    BY <1>2, <1>6, <2>2, <2>3, <2>4, <2>5, AddedEpolls
<1>12. Settle(ls, o, pipes, objs, t, e)
  BY <1>3
<1> HIDE DEF ls, e, objs, t
<1>13. MainOK(main', ls, o, pipes)
  BY <1>1, <1>2, <1>4, <1>6 DEF MainOK, MainStates
<1>14. OwnersOK(main', ls, o, pipes, objs, t)
  <2>1. /\ \A p \in Live : table[m_bind_socket[p]] # "free"
        /\ \A p \in pipes : p \in Live /\ table[m_bind_socket[p]] \in Usable
    BY <1>2, Basics DEF IInv, OwnersOK, Ended
  <2>2. "connected" \in Usable
    BY DEF Usable
  <2>3. \A p \in Live : t[objs[p]] = table[m_bind_socket[p]]
    BY <1>9, <1>10
  <2>4. t[objs[o]] = "connected"
    BY <1>9, <1>10
  <2> QED
    BY <1>6, <1>10, <2>1, <2>2, <2>3, <2>4 DEF OwnersOK
<1> QED
  BY <1>7, <1>8, <1>11, <1>12, <1>13, <1>14, SettleInv

LEMMA AcceptThrowsStep ==
  ASSUME IInv, AcceptThrows
  PROVE  IInv'
<1>1. Establishing /\ ~cfg.caller /\ main' = "draining"
  BY DEF AcceptThrows
<1>2. /\ main \notin Ended /\ conn = NoObj
      /\ listening_sock \notin pipes /\ Users(conn, pipes) = pipes
      /\ pipes \in SUBSET Objs /\ NoObj \notin pipes
  BY <1>1, EstablishingFacts
<1>3. CASE Settle(NoObj, conn, pipes, m_bind_socket, table, epolls)
  <2>1. Pointers(NoObj, conn, pipes) = pipes /\ pipes \subseteq Live
    BY <1>2, Basics DEF Pointers
  <2>2. MainOK(main', NoObj, conn, pipes)
    BY <1>1, <1>2 DEF MainOK, MainStates
  <2>3. main' \in Ended
    BY <1>1 DEF Ended
  <2>4. \A o \in Pointers(NoObj, conn, pipes) : cfg.caller \/ (o = listening_sock <=> o = NoObj)
    BY <1>2, <2>1
  <2> QED
    BY <1>1, <1>2, <1>3, <2>1, <2>2, <2>3, <2>4, KeptTable
<1>4. CASE AcceptedThrows
  <2>1. PICK d \in Free, e \in 0..EpollsOf(TRUE) :
          Settle(NoObj, conn, pipes, m_bind_socket, [table EXCEPT ![d] = "connected"], epolls + e)
    BY <1>4 DEF AcceptedThrows
  <2>2. "connected" \in DescStates
    BY DEF DescStates
  <2>3. e \in 0..EpollsOf(FALSE)
    <3> DEFINE a == EpollsOf(TRUE)
               b == EpollsOf(FALSE)
    <3>1. (a = 0 /\ b = 0) \/ (a = 1 /\ b = 2)
      BY EpollNumbers
    <3>2. e \in 0..a
      OBVIOUS
    <3> HIDE DEF a, b
    <3>3. e \in 0..b
      BY <3>1, <3>2
    <3> QED
      BY <3>3 DEF b
  <2> QED
    BY <1>1, <1>2, <2>1, <2>2, <2>3, Stray
<1> QED
  BY <1>3, <1>4 DEF AcceptThrows

LEMMA ConnectStep ==
  ASSUME IInv, Connect
  PROVE  IInv'
<1> DEFINE ls == IF Srt THEN NoObj ELSE listening_sock
           t == [table EXCEPT ![Own] = "connected"]
<1>1. /\ Establishing /\ cfg.caller /\ table[Own] = "open" /\ main' = "handover"
      /\ Settle(ls, listening_sock, pipes, m_bind_socket, t, epolls)
  BY DEF Connect
<1>2. /\ main \notin Ended /\ cfg.kind # "udp"
      /\ listening_sock \in Live /\ listening_sock # NoObj
      /\ Users(conn, pipes) = pipes /\ conn = NoObj
      /\ pipes \in SUBSET Objs /\ NoObj \notin pipes
      /\ Pointers(listening_sock, conn, pipes) = Live
  BY <1>1, EstablishingFacts
<1>3. \A o \in pipes : table[m_bind_socket[o]] \in Usable
  BY <1>2 DEF IInv, OwnersOK
<1>4. "open" \notin Usable /\ "connected" \in Usable /\ "connected" \in DescStates
  BY DEF Usable, DescStates
<1>5. listening_sock \notin pipes
  BY <1>1, <1>3, <1>4 DEF Own
<1>6. /\ t \in [Descs -> DescStates]
      /\ t[m_bind_socket[listening_sock]] = "connected"
      /\ \A p \in Live \ {listening_sock} : t[m_bind_socket[p]] = table[m_bind_socket[p]]
      /\ Left(m_bind_socket, t) \subseteq Left(m_bind_socket, table)
  BY <1>2, <1>4, OwnChanges, LeftOwn DEF Own
<1>7. /\ Pointers(ls, listening_sock, pipes) = pipes \cup {listening_sock}
      /\ Users(listening_sock, pipes) = pipes \cup {listening_sock}
      /\ pipes \subseteq Live
  BY <1>2, Basics DEF Pointers, Users
<1>8. ls # NoObj => cfg.kind = "tcp"
  BY <1>2, Basics DEF Srt, Config
<1>9. ls = NoObj \/ ls = listening_sock
  OBVIOUS
<1> HIDE DEF ls, t
<1>10. MainOK(main', ls, listening_sock, pipes)
  BY <1>1, <1>2, <1>7, <1>8, <1>9 DEF MainOK, MainStates
<1>11. OwnersOK(main', ls, listening_sock, pipes, m_bind_socket, t)
  <2>1. \A p \in Live : table[m_bind_socket[p]] # "free"
    BY <1>2, Basics DEF IInv, OwnersOK, Ended
  <2> QED
    BY <1>2, <1>3, <1>4, <1>5, <1>6, <1>7, <2>1 DEF OwnersOK
<1> QED
  BY <1>1, <1>2, <1>6, <1>7, <1>10, <1>11, Kept

LEMMA ConnectThrowsStep ==
  ASSUME IInv, ConnectThrows
  PROVE  IInv'
<1> DEFINE t == IF Srt THEN [table EXCEPT ![Own] = Closed] ELSE table
<1>1. /\ Establishing /\ cfg.caller /\ main' = "draining"
      /\ Settle(NoObj, conn, pipes, m_bind_socket, t, epolls)
  BY DEF ConnectThrows
<1>2. /\ main \notin Ended /\ listening_sock \in Live
      /\ Users(conn, pipes) = pipes /\ conn = NoObj
      /\ listening_sock \in pipes => cfg.kind = "tcp"
      /\ pipes \in SUBSET Objs /\ NoObj \notin pipes
  BY <1>1, EstablishingFacts
<1>3. Pointers(NoObj, conn, pipes) = pipes /\ pipes \subseteq Live
  BY <1>2, Basics DEF Pointers
<1>4. MainOK(main', NoObj, conn, pipes)
  BY <1>1, <1>2 DEF MainOK, MainStates
<1>5. main' \in Ended
  BY <1>1 DEF Ended
<1>6. CASE ~Srt
  <2>1. Settle(NoObj, conn, pipes, m_bind_socket, table, epolls)
    BY <1>1, <1>6
  <2> QED
    BY <1>1, <1>2, <1>3, <1>4, <1>5, <2>1, KeptTable
<1>7. CASE Srt
  <2>1. listening_sock \notin pipes
    BY <1>2, <1>7 DEF Srt
  <2>2. Closed \in DescStates
    BY DEF Closed, DescStates
  <2>3. /\ t \in [Descs -> DescStates]
        /\ \A p \in Live \ {listening_sock} : t[m_bind_socket[p]] = table[m_bind_socket[p]]
        /\ Left(m_bind_socket, t) \subseteq Left(m_bind_socket, table)
    BY <1>2, <1>7, <2>2, OwnChanges, LeftOwn DEF Own
  <2> HIDE DEF t
  <2>4. OwnersOK(main', NoObj, conn, pipes, m_bind_socket, t)
    <3>1. /\ \A p \in Live : table[m_bind_socket[p]] # "free"
          /\ \A p \in pipes : table[m_bind_socket[p]] \in Usable
      BY <1>2, Basics DEF IInv, OwnersOK, Ended
    <3> QED
      BY <1>2, <1>3, <2>1, <2>3, <3>1 DEF OwnersOK
  <2> QED
    BY <1>1, <1>2, <1>3, <1>4, <1>5, <2>3, <2>4, Kept
<1> QED
  BY <1>6, <1>7

LEMMA HandoverStep ==
  ASSUME IInv, Handover
  PROVE  IInv'
<1> DEFINE ls == IF cfg.close_listener THEN NoObj ELSE listening_sock
<1>1. /\ main = "handover" /\ main' = "waiting"
      /\ Settle(ls, NoObj, pipes \cup {conn}, m_bind_socket, table, epolls)
  BY DEF Handover
<1>2. conn # NoObj /\ conn \in Live /\ pipes \subseteq Live /\ Live \subseteq Objs
  BY <1>1, Basics DEF IInv, MainOK
<1>3. /\ Users(conn, pipes) = pipes \cup {conn}
      /\ Users(NoObj, pipes \cup {conn}) = pipes \cup {conn}
      /\ pipes \cup {conn} \in SUBSET Objs
  BY <1>2, Basics DEF Users
<1>4. Pointers(ls, NoObj, pipes \cup {conn}) \subseteq Live
  BY <1>2, Basics DEF Pointers
<1>5. listening_sock \in pipes \cup {conn} => cfg.kind = "tcp" /\ cfg.caller
  BY <1>3 DEF IInv, MainOK
<1>6. ls \in {listening_sock, NoObj} /\ (cfg.kind = "udp" => ls = NoObj)
  BY DEF IInv, MainOK
<1>7. NoObj \notin pipes \cup {conn}
  BY <1>2, Basics
<1> HIDE DEF ls
<1>8. MainOK(main', ls, NoObj, pipes \cup {conn})
  BY <1>1, <1>3, <1>5, <1>6, <1>7 DEF MainOK, MainStates
<1>9. \A o \in Pointers(ls, NoObj, pipes \cup {conn}) : cfg.caller \/ (o = listening_sock <=> o = ls)
  BY <1>5, <1>6 DEF Pointers
<1>10. main \notin Ended
  BY <1>1 DEF Ended
<1> QED
  BY <1>1, <1>3, <1>4, <1>6, <1>8, <1>9, <1>10, KeptTable DEF Ended

LEMMA ReturnStep ==
  ASSUME IInv, Return
  PROVE  IInv'
<1>1. /\ main = "draining" /\ pipes = {} /\ main' = "returned"
      /\ Settle(NoObj, NoObj, pipes, m_bind_socket, table, epolls)
  BY DEF Return
<1>2. Pointers(NoObj, NoObj, pipes) = {} /\ Users(NoObj, pipes) = {}
  BY <1>1 DEF Pointers, Users
<1>3. MainOK(main', NoObj, NoObj, pipes)
  BY <1>1, <1>2 DEF MainOK, MainStates
<1>4. pipes \in SUBSET Objs /\ main' \in Ended
  BY <1>1 DEF Ended
<1> QED
  BY <1>1, <1>2, <1>3, <1>4, KeptTable

-----------------------------------------------------------------------------
(* Steps without a destructor.                                             *)

LEMMA Unmoved ==
  ASSUME IInv, UNCHANGED <<cfg, force_break, pointers, m_bind_socket, epolls>>,
         reading' \subseteq pipes, inbox' \subseteq Descs, clogged' \subseteq Descs,
         MainOK(main', listening_sock, conn, pipes),
         OwnersOK(main', listening_sock, conn, pipes, m_bind_socket, table'),
         Left(m_bind_socket, table') \subseteq Left(m_bind_socket, table),
         main \in Ended => main' \in Ended
  PROVE  IInv'
<1>1. /\ cfg' = cfg /\ force_break' = force_break /\ m_bind_socket' = m_bind_socket
      /\ epolls' = epolls /\ listening_sock' = listening_sock /\ conn' = conn /\ pipes' = pipes
  BY DEF pointers
<1>2. Rest'
  BY <1>1 DEF IInv, Rest
<1>3. Live' = Live
  BY <1>1 DEF Live
<1>4. ObjectsOK(listening_sock, conn, pipes, m_bind_socket)'
  BY <1>1 DEF IInv, ObjectsOK, Pointers
<1>5. (Live = Pointers(listening_sock, conn, pipes))'
  BY <1>1, <1>3 DEF IInv, Pointers
<1>6. MainOK(main, listening_sock, conn, pipes)'
  BY <1>1 DEF MainOK, Pointers, Users
<1>7. OwnersOK(main, listening_sock, conn, pipes, m_bind_socket, table)'
  <2>1. Usable' = Usable
    BY <1>1 DEF Usable, Srt
  <2> QED
    BY <1>1, <2>1 DEF OwnersOK, Pointers, Users
<1>8. LeftOK(main, m_bind_socket, table)'
  <2>1. LeftOK(main', m_bind_socket, table')
    BY DEF IInv, LeftOK
  <2> QED
    BY <1>1, <2>1 DEF LeftOK, Left, Ended, InUse
<1>9. EpollsOK(main, Live, listening_sock, epolls)'
  <2>1. EpollsOf(FALSE)' = EpollsOf(FALSE) /\ EpollsOf(TRUE)' = EpollsOf(TRUE)
    BY <1>1 DEF EpollsOf, Srt
  <2>2. Weight(Live, listening_sock)' = Weight(Live, listening_sock)
    BY <1>1, <1>3, <2>1 DEF Weight
  <2>3. CASE force_break
    BY <1>1, <2>3 DEF EpollsOK
  <2>4. CASE ~force_break
    <3>1. PICK k \in 0..EpollsOf(FALSE) :
            epolls = Weight(Live, listening_sock) + k /\ (main \notin Ended => k = 0)
      BY <2>4 DEF IInv, EpollsOK
    <3>2. k \in 0..EpollsOf(FALSE)' /\ epolls' = Weight(Live, listening_sock)' + k
      BY <1>1, <2>1, <2>2, <3>1
    <3> QED
      BY <3>1, <3>2 DEF EpollsOK, Ended
  <2> QED
    BY <2>3, <2>4
<1> QED
  BY <1>2, <1>4, <1>5, <1>6, <1>7, <1>8, <1>9 DEF IInv

\* The loop of common_run goes on, or ends.
LEMMA LoopStep ==
  ASSUME IInv, NextConnection \/ LeaveLoop
  PROVE  IInv'
<1>1. /\ main = "waiting" /\ main' \in {"create", "draining"}
      /\ UNCHANGED <<cfg, reading, force_break, pointers, descriptors>>
  BY DEF NextConnection, LeaveLoop
<1>2. MainOK(main', listening_sock, conn, pipes)
  BY <1>1 DEF IInv, MainOK, MainStates
<1>3. OwnersOK(main', listening_sock, conn, pipes, m_bind_socket, table')
  BY <1>1 DEF IInv, OwnersOK, descriptors
<1> QED
  BY <1>1, <1>2, <1>3, Unmoved DEF IInv, Rest, Ended, descriptors

\* A pipe drops its pointer.
LEMMA PipeEnds ==
  ASSUME IInv, NEW o \in pipes, main' = main,
         Settle(listening_sock, conn, pipes \ {o}, m_bind_socket, table, epolls)
  PROVE  IInv'
<1>1. /\ Pointers(listening_sock, conn, pipes \ {o}) \subseteq Live
      /\ Users(conn, pipes \ {o}) \subseteq Users(conn, pipes)
      /\ pipes \ {o} \in SUBSET Objs
  BY Basics DEF Pointers, Users
<1>2. MainOK(main', listening_sock, conn, pipes \ {o})
  <2>1. Pointers(listening_sock, conn, pipes \ {o}) \subseteq Pointers(listening_sock, conn, pipes)
    BY DEF Pointers
  <2> QED
    BY <1>1, <2>1 DEF IInv, MainOK
<1>3. main # "returned"
  BY Basics DEF IInv, MainOK
<1> QED
  BY <1>1, <1>2, <1>3, KeptTable DEF Ended

LEMMA PipeStep ==
  ASSUME IInv, NEW o \in Objs, PipeLoop(o) \/ CallReturns(o)
  PROVE  IInv'
<1>1. /\ reading \subseteq pipes /\ inbox \subseteq Descs /\ clogged \subseteq Descs
      /\ MainOK(main, listening_sock, conn, pipes)
      /\ OwnersOK(main, listening_sock, conn, pipes, m_bind_socket, table)
  BY DEF IInv, Rest
<1>2. ASSUME main' = main, UNCHANGED <<cfg, pointers, m_bind_socket, table, epolls, clogged, force_break>>,
             reading' \subseteq pipes, inbox' \subseteq Descs
      PROVE  IInv'
  BY <1>1, <1>2, Unmoved
<1>3. CASE PipeLoop(o)
  <2>1. o \in pipes /\ main' = main
    BY <1>3 DEF PipeLoop
  <2>2. CASE force_break
    BY <1>3, <2>1, <2>2, PipeEnds DEF PipeLoop
  <2>3. CASE ~force_break
    BY <1>1, <1>2, <1>3, <2>1, <2>3 DEF PipeLoop, descriptors
  <2> QED
    BY <2>2, <2>3
<1>4. CASE CallReturns(o)
  <2>1. o \in pipes /\ main' = main
    BY <1>1, <1>4 DEF CallReturns
  <2>2. CASE Settle(listening_sock, conn, pipes \ {o}, m_bind_socket, table, epolls)
    BY <2>1, <2>2, PipeEnds
  <2>3. CASE reading' = reading \ {o} /\ UNCHANGED <<cfg, force_break, pointers, descriptors>>
    BY <1>1, <1>2, <2>1, <2>3 DEF descriptors
  <2>4. CASE /\ reading' = reading \ {o}
             /\ inbox' = IF cfg.sends THEN inbox ELSE inbox \ {m_bind_socket[o]}
             /\ UNCHANGED <<cfg, pointers, m_bind_socket, table, epolls, clogged, force_break>>
    BY <1>1, <1>2, <2>1, <2>4
  <2> QED
    BY <1>4, <2>2, <2>3, <2>4 DEF CallReturns
<1> QED
  BY <1>3, <1>4

\* The signal leaves nothing: no pointer, no object, no descriptor.
LEMMA KilledStep ==
  ASSUME IInv, NEW o \in Objs, KilledBySignal(o)
  PROVE  IInv'
<1> DEFINE t == [d \in Descs |-> "free"]
<1>1. /\ main' = "killed" /\ main' \in Ended /\ cfg.kind = "tcp"
      /\ Settle(NoObj, NoObj, {}, m_bind_socket, t, epolls)
  BY DEF KilledBySignal, Ended
<1>2. /\ Pointers(NoObj, NoObj, {}) = {} /\ Users(NoObj, {}) = {}
      /\ t \in [Descs -> DescStates] /\ \A d \in Descs : t[d] = "free"
  BY DEF Pointers, Users, DescStates
<1> HIDE DEF t
<1>3. ObjectsOK(NoObj, NoObj, {}, m_bind_socket)
  BY <1>2, KeptObjects
<1>4. MainOK(main', NoObj, NoObj, {})
  BY <1>1, <1>2 DEF MainOK, MainStates
<1>5. OwnersOK(main', NoObj, NoObj, {}, m_bind_socket, t)
  BY <1>2 DEF OwnersOK
<1>6. LeftOK(main', m_bind_socket, t)
  <2>1. Left(m_bind_socket, t) = {}
    BY <1>2 DEF Left, InUse
  <2> QED
    BY <2>1 DEF LeftOK
<1>7. EpollsBefore(main', NoObj, NoObj, {}, m_bind_socket, epolls)
  <2> SUFFICES ASSUME ~force_break PROVE EpollsBefore(main', NoObj, NoObj, {}, m_bind_socket, epolls)
    BY DEF EpollsBefore
  <2>1. PICK k \in 0..EpollsOf(FALSE) : epolls = Weight(Live, listening_sock) + k
    BY DEF IInv, EpollsOK
  <2>2. /\ listening_sock \in Objs \cup {NoObj}
        /\ epolls = Weight({p \in Objs : m_bind_socket[p] # NoDesc}, listening_sock) + k
    BY <2>1, Basics
  <2> QED
    BY <1>1, <1>2, <2>1, <2>2 DEF EpollsBefore
<1> QED
  BY <1>1, <1>3, <1>4, <1>5, <1>6, <1>7, SettleInv

\* The network: data, backpressure, and lost connections.
LEMMA NetworkStep ==
  ASSUME IInv, NEW d \in Descs, Arrive(d) \/ Backpressure(d) \/ PeerCloses(d)
  PROVE  IInv'
<1>1. /\ reading \subseteq pipes /\ inbox \subseteq Descs /\ clogged \subseteq Descs
      /\ MainOK(main, listening_sock, conn, pipes)
      /\ OwnersOK(main, listening_sock, conn, pipes, m_bind_socket, table)
  BY DEF IInv, Rest
<1>2. CASE Arrive(d)
  BY <1>1, <1>2, Unmoved DEF Arrive, others
<1>3. CASE Backpressure(d)
  <2>1. clogged' \subseteq Descs
    BY <1>1, <1>3 DEF Backpressure
  <2> QED
    BY <1>1, <1>3, <2>1, Unmoved DEF Backpressure, others
<1>4. CASE PeerCloses(d)
  <2>1. /\ table[d] = "connected" /\ table' = [table EXCEPT ![d] = "broken"]
        /\ inbox' = inbox /\ clogged' = clogged /\ reading' = reading /\ main' = main
        /\ UNCHANGED <<cfg, force_break, pointers, m_bind_socket, epolls>>
    BY <1>4 DEF PeerCloses, others
  <2>2. /\ table' \in [Descs -> DescStates]
        /\ table'[d] = "broken" /\ \A x \in Descs \ {d} : table'[x] = table[x]
    BY <2>1, Basics DEF DescStates
  <2>3. Left(m_bind_socket, table') \subseteq Left(m_bind_socket, table)
    BY <2>1, <2>2 DEF Left, InUse
  <2>4. OwnersOK(main', listening_sock, conn, pipes, m_bind_socket, table')
    <3>1. /\ \A o \in Pointers(listening_sock, conn, pipes) : m_bind_socket[o] \in Descs
          /\ Users(conn, pipes) \subseteq Pointers(listening_sock, conn, pipes)
      BY Basics DEF Users, Pointers
    <3>2. "broken" \in Usable
      BY DEF Usable
    <3> QED
      BY <1>1, <2>1, <2>2, <3>1, <3>2 DEF OwnersOK
  <2> QED
    BY <1>1, <2>1, <2>3, <2>4, Unmoved
<1> QED
  BY <1>2, <1>3, <1>4

\* The signal handler takes the sockets and the epolls of libsrt away.
LEMMA InterruptStep ==
  ASSUME IInv, OnINT_ForceExit
  PROVE  IInv'
<1>1. /\ force_break' = TRUE
      /\ table' = [d \in Descs |-> IF Srt /\ table[d] \in InUse THEN "gone" ELSE table[d]]
      /\ epolls' = IF Srt THEN 0 ELSE epolls
      /\ inbox' = IF Srt THEN {} ELSE inbox
      /\ clogged' = IF Srt THEN {} ELSE clogged
      /\ cfg' = cfg /\ main' = main /\ reading' = reading /\ m_bind_socket' = m_bind_socket
      /\ listening_sock' = listening_sock /\ conn' = conn /\ pipes' = pipes
  BY DEF OnINT_ForceExit, pointers
<1>2. Rest'
  BY <1>1 DEF IInv, Rest
<1>3. Live' = Live
  BY <1>1 DEF Live
<1>4. ObjectsOK(listening_sock, conn, pipes, m_bind_socket)'
  BY <1>1 DEF IInv, ObjectsOK, Pointers
<1>5. (Live = Pointers(listening_sock, conn, pipes))'
  BY <1>1, <1>3 DEF IInv, Pointers
<1>6. MainOK(main, listening_sock, conn, pipes)'
  BY <1>1 DEF IInv, MainOK, Pointers, Users
<1>7. table' \in [Descs -> DescStates] /\ "gone" \notin InUse
  BY <1>1, Basics DEF DescStates, InUse
<1>8. OwnersOK(main, listening_sock, conn, pipes, m_bind_socket, table)'
  <2>1. /\ \A o \in Pointers(listening_sock, conn, pipes) :
             /\ m_bind_socket[o] \in Descs
             /\ table[m_bind_socket[o]] = "free" =>
                  main = "draining" /\ o = listening_sock /\ ~cfg.caller
        /\ \A o \in Users(conn, pipes) : table[m_bind_socket[o]] \in Usable
        /\ Users(conn, pipes) \subseteq Pointers(listening_sock, conn, pipes)
    BY Basics DEF IInv, OwnersOK, Users, Pointers
  <2>2. \A x \in Descs : /\ table'[x] = "free" => table[x] = "free"
                         /\ table[x] \in Usable => table'[x] \in Usable'
    <3>1. Usable' = {"connected", "broken"} \cup (IF Srt THEN {"gone"} ELSE {})
      BY <1>1 DEF Usable, Srt
    <3>2. Usable \subseteq {"connected", "broken"} \cup (IF Srt THEN {"gone"} ELSE {})
      BY DEF Usable
    <3>3. ASSUME NEW x \in Descs
          PROVE  /\ table'[x] = "free" => table[x] = "free"
                 /\ table[x] \in Usable => table'[x] \in Usable'
      <4>1. table'[x] = IF Srt /\ table[x] \in InUse THEN "gone" ELSE table[x]
        BY <1>1
      <4> QED
        BY <3>1, <3>2, <4>1 DEF InUse
    <3> QED
      BY <3>3
  <2>3. /\ \A o \in Pointers(listening_sock, conn, pipes) : table'[m_bind_socket[o]] = "free" =>
             main = "draining" /\ o = listening_sock /\ ~cfg.caller
        /\ \A o \in Users(conn, pipes) : table'[m_bind_socket[o]] \in Usable'
    BY <2>1, <2>2
  <2> QED
    BY <1>1, <1>7, <2>3 DEF OwnersOK, Pointers, Users
<1>9. LeftOK(main, m_bind_socket, table)'
  <2>1. Left(m_bind_socket, table') \subseteq Left(m_bind_socket, table)
    BY <1>1, <1>7 DEF Left
  <2>2. LeftOK(main', m_bind_socket, table')
    BY <1>1, <2>1 DEF IInv, LeftOK
  <2> QED
    BY <1>1, <2>2 DEF LeftOK, Left, Ended, InUse
<1>10. EpollsOK(main, Live, listening_sock, epolls)'
  BY <1>1 DEF EpollsOK
<1> QED
  BY <1>2, <1>4, <1>5, <1>6, <1>8, <1>9, <1>10 DEF IInv

-----------------------------------------------------------------------------
LEMMA InitInv == Init => IInv
<1> SUFFICES ASSUME Init PROVE IInv
  OBVIOUS
<1>1. Rest
  BY SocketsAssumption DEF Init, Rest
<1>2. Pointers(listening_sock, conn, pipes) = {} /\ Users(conn, pipes) = {} /\ Live = {}
  BY DEF Init, Pointers, Users, Live
<1>3. ObjectsOK(listening_sock, conn, pipes, m_bind_socket)
  BY <1>2 DEF Init, ObjectsOK
<1>4. MainOK(main, listening_sock, conn, pipes)
  BY <1>2 DEF Init, MainOK, MainStates
<1>5. OwnersOK(main, listening_sock, conn, pipes, m_bind_socket, table)
  BY <1>2 DEF Init, OwnersOK, DescStates
<1>6. LeftOK(main, m_bind_socket, table)
  BY DEF Init, LeftOK, Left, InUse
<1>7. EpollsOK(main, Live, listening_sock, epolls)
  <2>1. Cardinality({}) = 0
    BY FS_EmptySet
  <2>2. /\ {o \in Live : ~cfg.caller /\ o # listening_sock} = {}
        /\ {o \in Live : cfg.caller \/ o = listening_sock} = {}
    BY <1>2
  <2>3. Weight(Live, listening_sock) = EpollsOf(TRUE) * 0 + EpollsOf(FALSE) * 0
    BY <2>1, <2>2, Zenon DEF Weight
  <2>4. \A n \in Nat : n * 0 = 0
    OBVIOUS
  <2>5. EpollsOf(TRUE) * 0 = 0 /\ EpollsOf(FALSE) * 0 = 0
    BY <2>4, EpollNat, Zenon
  <2>6. 0 = 0 + 0
    OBVIOUS
  <2>7. epolls = Weight(Live, listening_sock) + 0
    BY <2>3, <2>5, <2>6, Zenon DEF Init
  <2> QED
    BY <2>7, EpollNat, Zenon DEF EpollsOK
<1> QED
  BY <1>1, <1>2, <1>3, <1>4, <1>5, <1>6, <1>7 DEF IInv

LEMMA NextInv == IInv /\ [Next]_vars => IInv'
<1> SUFFICES ASSUME IInv, [Next]_vars PROVE IInv'
  OBVIOUS
<1>1. CASE UNCHANGED vars
  <2>1. /\ main' = main /\ reading' = reading /\ inbox' = inbox /\ clogged' = clogged /\ table' = table
        /\ UNCHANGED <<cfg, force_break, pointers, m_bind_socket, epolls>>
    BY <1>1 DEF vars, pointers
  <2> QED
    BY <2>1, Unmoved DEF IInv, Rest
<1>2. CASE Main
  BY <1>2, ConstructStep, ConstructThrowsStep, ListenStep, AcceptStep, AcceptThrowsStep,
     ConnectStep, ConnectThrowsStep, HandoverStep, LoopStep, ReturnStep DEF Main
<1> QED
  BY <1>1, <1>2, PipeStep, KilledStep, NetworkStep, InterruptStep DEF Next

\* The invariant of the sockets, whatever fails, for any number of them.
THEOREM SocketsInvariant == Spec => []IInv
BY InitInv, NextInv, PTL DEF Spec

LEMMA TypeFromInv == IInv => TypeOK
<1> SUFFICES ASSUME IInv PROVE TypeOK
  OBVIOUS
<1>1. main \in MainStates
  BY DEF IInv, MainOK
<1> QED
  BY <1>1, Basics DEF IInv, Rest, TypeOK

\* Nobody closes a socket under the pipe that uses it, and no other object
\* refers to its descriptor, for any number of objects, descriptors and
\* streams, and whatever fails (tcp_socket.cpp:112, misc.cpp:74).
THEOREM PipeOwnsDescriptorHolds == Spec => []PipeOwnsDescriptor
<1>1. IInv => PipeOwnsDescriptor
  <2> SUFFICES ASSUME IInv PROVE PipeOwnsDescriptor
    OBVIOUS
  <2>1. ASSUME NEW o \in pipes
        PROVE  /\ table[m_bind_socket[o]] \in Usable
               /\ \A p \in Live \ {o} : m_bind_socket[p] # m_bind_socket[o]
    <3>1. o \in Users(conn, pipes) /\ o \in Objs /\ m_bind_socket[o] # NoDesc /\ Live \subseteq Objs
      BY Basics DEF Users
    <3> QED
      BY <3>1 DEF IInv, OwnersOK, ObjectsOK
  <2> QED
    BY <2>1, TypeFromInv DEF PipeOwnsDescriptor, Usable
<1> QED
  BY <1>1, SocketsInvariant, PTL

\* However calls fail, at most one descriptor and the epolls made for it are
\* left without an owner, and no epoll is released that is still used
\* (srt_socket.cpp:46, :88, :147, tcp_socket.cpp:55).
THEOREM AtMostOneLeftHolds == Spec => []AtMostOneLeft
<1>1. IInv => AtMostOneLeft
  <2> SUFFICES ASSUME IInv PROVE AtMostOneLeft
    OBVIOUS
  <2> DEFINE L == {d \in Descs : table[d] \in InUse /\ d \notin OwnedDescs}
  <2>1. \A d \in L : d \in Left(m_bind_socket, table)
    <3>1. \A o \in Objs : m_bind_socket[o] \in OwnedDescs \/ m_bind_socket[o] = NoDesc
      BY Basics DEF OwnedDescs
    <3> QED
      BY <3>1, Basics DEF Left
  <2>2. \A d, e \in L : d = e
    BY <2>1 DEF IInv, LeftOK
  <2>3. Cardinality(L) <= 1
    <3>1. CASE L = {}
      BY <3>1, FS_EmptySet
    <3>2. CASE L # {}
      <4>1. PICK d \in L : TRUE
        BY <3>2
      <4>2. L = {d}
        BY <2>2, <4>1
      <4> HIDE DEF L
      <4> QED
        BY <4>2, FS_Singleton
    <3> QED
      BY <3>1, <3>2
  <2>4. ASSUME ~force_break PROVE epolls - EpollsOwned(Live) \in 0..EpollsOf(FALSE)
    <3>1. PICK k \in 0..EpollsOf(FALSE) : epolls = Weight(Live, listening_sock) + k
      BY <2>4 DEF IInv, EpollsOK
    <3>2. Weight(Live, listening_sock) \in Nat
      BY Basics, WeightType
    <3>3. EpollsOwned(Live) = Weight(Live, listening_sock)
      BY OwnedIsWeight
    <3>4. k \in Nat
      BY EpollNat
    <3>5. epolls - Weight(Live, listening_sock) = k
      BY <3>1, <3>2, <3>4
    <3> QED
      BY <3>1, <3>3, <3>5
  <2> QED
    BY <2>3, <2>4 DEF AtMostOneLeft
<1> QED
  BY <1>1, SocketsInvariant, PTL
=============================================================================
