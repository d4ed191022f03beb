----------------------------- MODULE RoutingProofs -----------------------------
(***************************************************************************)
(* Proofs about the events the supervisor sends to the manager, for every  *)
(* set of paths, any number of workers and faults: the routing table and   *)
(* the core follow the workers, no input comes outside a session, and what *)
(* the core sees is what DeviceRegistry allows.                            *)
(***************************************************************************)
EXTENDS ManagerProofs, SequenceTheorems, WellFoundedInduction

-----------------------------------------------------------------------------
(* Routes along a sequence of events. *)

\* As RouteAfter, of any events and any routing table.
Moves(e, d) == e.kind \in {"Connected", "Disconnected"} /\ Identity(e.path_key) = d
LastIn(s, d, n) == SelectLastInSubSeq(s, 1, n, LAMBDA e : Moves(e, d))
RouteIn(s, map, d, n) ==
    LET k == LastIn(s, d, n) IN
    IF k = 0 THEN map[d] ELSE IF s[k].kind = "Connected" THEN s[k].worker_id ELSE None

\* A set of positions has a last one.
LEMMA HasGreatest ==
    ASSUME NEW n \in Nat, NEW S \in SUBSET (1..n), S # {}
    PROVE  Max(S) \in S /\ \A k \in S : k <= Max(S)
<1> DEFINE below == {n - k : k \in S}
           Less == OpToRel(<, Nat)
<1>1. \A k \in S : k \in 1..n /\ n - k \in Nat
  OBVIOUS
<1>2. below \subseteq Nat /\ below # {}
  BY <1>1
<1>3. PICK x \in below : \A y \in below : ~(<<y, x>> \in Less)
  <2>1. IsWellFoundedOn(Less, Nat)
    BY NatLessThanWellFounded
  <2> HIDE DEF below, Less
  <2> QED
    BY <1>2, <2>1, WFMin
<1>4. \A y \in below : x <= y
  <2> SUFFICES ASSUME NEW y \in below
               PROVE  x <= y
    OBVIOUS
  <2>1. x \in Nat /\ y \in Nat
    BY <1>2
  <2>2. y < x => <<y, x>> \in Less
    BY <2>1 DEF OpToRel
  <2>3. ~(y < x)
    BY <1>3, <2>2, Zenon
  <2> QED
    BY <2>1, <2>3
<1>5. PICK m \in S : x = n - m
  OBVIOUS
<1>6. \A k \in S : m >= k
  <2> SUFFICES ASSUME NEW k \in S
               PROVE  m >= k
    OBVIOUS
  <2>1. n - m <= n - k
    BY <1>4, <1>5
  <2> QED
    BY <1>1, <2>1
<1>7. Max(S) \in S /\ \A k \in S : Max(S) >= k
  BY <1>6 DEF Max
<1> QED
  BY <1>1, <1>7

\* What LastIn finds: the last event of d among the first n, or 0 if there is none.
LEMMA LastInFinds ==
    ASSUME NEW s, NEW d, NEW n \in Nat
    PROVE  /\ LastIn(s, d, n) \in 0..n
           /\ LastIn(s, d, n) # 0 => Moves(s[LastIn(s, d, n)], d)
           /\ \A k \in 1..n : Moves(s[k], d) => k <= LastIn(s, d, n)
<1> DEFINE found == {k \in 1..n : Moves(s[k], d)}
<1>1. LastIn(s, d, n) = IF found # {} THEN Max(found) ELSE 0
  BY DEF LastIn, SelectLastInSubSeq
<1>2. CASE found = {}
  BY <1>1, <1>2
<1>3. CASE found # {}
  <2>1. Max(found) \in found /\ \A k \in found : k <= Max(found)
    BY <1>3, HasGreatest
  <2> QED
    BY <1>1, <1>3, <2>1
<1> QED
  BY <1>2, <1>3

LEMMA LastInIs ==
    ASSUME NEW s, NEW d, NEW n \in Nat, NEW m \in 0..n,
           m # 0 => Moves(s[m], d),
           \A k \in 1..n : k > m => ~Moves(s[k], d)
    PROVE  LastIn(s, d, n) = m
BY LastInFinds

\* Before the first event the table decides ...
LEMMA RouteStart ==
    ASSUME NEW s, NEW map, NEW d
    PROVE  RouteIn(s, map, d, 0) = map[d]
BY LastInFinds DEF RouteIn

\* ... then each event of d, ...
LEMMA RouteMoves ==
    ASSUME NEW s, NEW map, NEW d, NEW n \in Nat \ {0}, Moves(s[n], d)
    PROVE  RouteIn(s, map, d, n) =
               IF s[n].kind = "Connected" THEN s[n].worker_id ELSE None
<1>1. LastIn(s, d, n) = n
  BY LastInIs
<1> QED
  BY <1>1 DEF RouteIn

\* ... and other events make no difference; nor does what comes later.
LEMMA RouteStays ==
    ASSUME NEW s, NEW t, NEW map, NEW d, NEW n \in Nat, NEW m \in 0..n,
           \A k \in 1..m : s[k] = t[k],
           \A k \in 1..n : k > m => ~Moves(t[k], d)
    PROVE  RouteIn(t, map, d, n) = RouteIn(s, map, d, m)
<1> DEFINE l == LastIn(s, d, m)
<1>1. /\ m \in Nat /\ l \in 0..m
      /\ l # 0 => Moves(s[l], d)
      /\ \A k \in 1..m : Moves(s[k], d) => k <= l
  BY LastInFinds
<1>2. l # 0 => s[l] = t[l]
  BY <1>1
<1>3. LastIn(t, d, n) = l
  <2>1. \A k \in 1..n : k > l => ~Moves(t[k], d)
    <3> SUFFICES ASSUME NEW k \in 1..n, k > l
                 PROVE  ~Moves(t[k], d)
      OBVIOUS
    <3>1. CASE k > m
      BY <3>1
    <3>2. CASE k \in 1..m
      BY <1>1, <3>2
    <3> QED
      BY <1>1, <3>1, <3>2
  <2> HIDE DEF l
  <2> QED
    BY <1>1, <1>2, <2>1, LastInIs
<1> QED
  BY <1>2, <1>3 DEF RouteIn

\* Working off the first event moves every position by one.
LEMMA RouteOfTail ==
    ASSUME NEW s, NEW t, NEW map, NEW map2, NEW d, NEW n \in Nat,
           \A k \in 1..n : t[k] = s[k + 1],
           map2[d] = RouteIn(s, map, d, 1)
    PROVE  RouteIn(t, map2, d, n) = RouteIn(s, map, d, n + 1)
<1> DEFINE l == LastIn(s, d, n + 1)
<1>1. /\ l \in 0..n + 1
      /\ l # 0 => Moves(s[l], d)
      /\ \A k \in 1..n + 1 : Moves(s[k], d) => k <= l
  BY LastInFinds
<1>2. CASE l > 1
  <2>1. /\ l - 1 \in 1..n /\ t[l - 1] = s[l]
        /\ \A k \in 1..n : k > l - 1 => k + 1 \in 1..n + 1 /\ k + 1 > l /\ t[k] = s[k + 1]
    BY <1>1, <1>2
  <2>2. LastIn(t, d, n) = l - 1
    <3>1. \A k \in 1..n : k > l - 1 => ~Moves(t[k], d)
      BY <1>1, <2>1
    <3> HIDE DEF l
    <3> QED
      BY <1>1, <1>2, <2>1, <3>1, LastInIs
  <2> QED
    BY <1>2, <2>1, <2>2 DEF RouteIn
<1>3. CASE l <= 1
  <2>1. \A k \in 1..n : ~Moves(t[k], d)
    <3> SUFFICES ASSUME NEW k \in 1..n, Moves(t[k], d)
                 PROVE  FALSE
      OBVIOUS
    <3>1. k + 1 \in 1..n + 1 /\ Moves(s[k + 1], d)
      OBVIOUS
    <3> QED
      BY <1>1, <1>3, <3>1
  <2>2. RouteIn(t, map2, d, n) = map2[d]
    <3>1. LastIn(t, d, n) = 0
      BY <2>1, LastInIs
    <3> QED
      BY <3>1 DEF RouteIn
  <2>3. RouteIn(s, map, d, n + 1) = RouteIn(s, map, d, 1)
    <3>1. \A k \in 1..n + 1 : k > 1 => ~Moves(s[k], d)
      BY <1>1, <1>3
    <3> QED
      BY <3>1, RouteStays
  <2> QED
    BY <2>2, <2>3
<1> QED
  BY <1>1, <1>2, <1>3

-----------------------------------------------------------------------------
(* The inductive invariant. *)

Final == {"Disconnected", "Failed"}

\* Where the event loop may stand.
LoopTyped ==
    \/ loop = Receiving
    \/ loop = [at |-> "aborted"]
    \/ \E call \in Calls, e \in InFlight : loop = Calling(call, e)

\* Panels that are present, were enumerated or have a worker are different panels.
Distinct(S) == \A p, q \in S : Identity(p) = Identity(q) => p = q
Taken == {p \in Paths : launched[p] # None \/ active[p] # None}
Separate == Distinct(plugged) /\ Distinct(snapshot) /\ Distinct(Taken)

\* An event names its worker's path, and so does a route.
Named ==
    /\ \A k \in 1..Len(manager_tx) :
          /\ manager_tx[k].path_key = path_key[manager_tx[k].worker_id]
          /\ thread[manager_tx[k].worker_id] # "unborn"
    /\ \A d \in Devices : command_map[d] # None =>
          /\ Identity(path_key[command_map[d]]) = d
          /\ thread[command_map[d]] # "unborn"

\* Only the end of the loop closes the events; the core has what has a route.
Attentive ==
    /\ ~listening => shutdown
    /\ listening => AfterCall = {d \in Devices : command_map[d] # None}
    /\ listening <=> loop.at # "aborted"

\* Each event continues the session that those before it leave.
Continues(e, before) ==
    /\ e.kind = "Connected" => before = None
    /\ e.kind \in {"Disconnected", "Input"} => before = e.worker_id
Legal ==
    listening => \A k \in 1..Len(manager_tx) :
        Continues(manager_tx[k],
                  RouteIn(manager_tx, command_map, Identity(manager_tx[k].path_key), k - 1))

\* Worked off, the events lead to the workers that are active now.
Agree ==
    listening /\ phase # "done" =>
        \A d \in Devices :
            LET i == RouteIn(manager_tx, command_map, d, Len(manager_tx)) IN
            /\ i = None => \A p \in Paths : Identity(p) = d => active[p] = None
            /\ i # None => active[path_key[i]] = i

\* Whoever commands go to, or will go to, is active or its loss is on its way.
LossComes(i, k) ==
    \/ active[path_key[i]] = i
    \/ \E l \in k + 1..Len(manager_tx) :
          manager_tx[l].worker_id = i /\ manager_tx[l].kind = "Disconnected"
Followed ==
    listening /\ phase # "done" =>
        /\ \A d \in Devices : command_map[d] # None => LossComes(command_map[d], 0)
        /\ \A k \in 1..Len(manager_tx) :
              manager_tx[k].kind = "Connected" => LossComes(manager_tx[k].worker_id, k)

\* A worker in the tables works, or the supervisor is about to learn of its end.
Explained(i) ==
    \/ Alive(i)
    \/ thread[i] = "panicked" /\ i \in owned
    \/ \E k \in 1..Len(worker_rx) :
          worker_rx[k].worker_id = i /\ worker_rx[k].kind \in Final
Watched ==
    phase # "done" =>
        \A p \in Paths : /\ launched[p] # None => Explained(launched[p])
                         /\ active[p] # None => Explained(active[p])

RInv ==
    /\ IInv /\ TypeOK /\ LoopTyped /\ Separate /\ Named /\ Attentive
    /\ Legal /\ Agree /\ Followed /\ Watched

-----------------------------------------------------------------------------
(* Events sent. *)

\* No worker that was launched changes its path.
Steady == \A i \in Workers : thread[i] # "unborn" =>
              path_key'[i] = path_key[i] /\ thread'[i] # "unborn"

\* What the supervisor tells of the active workers of some paths, all of them at their
\* end: each loss once, and failures.
Farewell(gone, t) ==
    /\ gone \subseteq Paths /\ t \in Seq(InFlight)
    /\ \A p \in gone : active[p] # None /\ \E k \in 1..Len(t) :
          t[k].kind = "Disconnected" /\ t[k].path_key = p /\ t[k].worker_id = active[p]
    /\ \A k \in 1..Len(t) :
          /\ t[k].kind \in Final
          /\ t[k].path_key = path_key[t[k].worker_id] /\ thread[t[k].worker_id] # "unborn"
          /\ t[k].kind = "Disconnected" =>
                 t[k].path_key \in gone /\ t[k].worker_id = active[t[k].path_key]
    /\ \A j, k \in 1..Len(t) :
          /\ t[j].kind = "Disconnected" /\ t[k].kind = "Disconnected"
          /\ t[j].path_key = t[k].path_key
          => j = k

\* What RInv says of the types of events, routes and tables.
LEMMA EventTypes ==
    ASSUME RInv
    PROVE  /\ manager_tx \in Seq(InFlight) /\ Len(manager_tx) \in Nat
           /\ \A k \in 1..Len(manager_tx) :
                 /\ manager_tx[k] \in InFlight
                 /\ manager_tx[k].worker_id \in Workers /\ manager_tx[k].path_key \in Paths
                 /\ Identity(manager_tx[k].path_key) \in Devices
           /\ command_map \in [Devices -> 0..MaxWorkers]
           /\ active \in [Paths -> 0..MaxWorkers] /\ launched \in [Paths -> 0..MaxWorkers]
           /\ path_key \in [Workers -> Paths]
           /\ \A i \in 0..MaxWorkers : i # None <=> i \in Workers
           /\ \A i \in Workers : i # None
<1>1. manager_tx \in Seq(InFlight)
  BY DEF RInv, TypeOK, STypeOK, InFlight
<1>2. \A k \in 1..Len(manager_tx) : manager_tx[k] \in InFlight
  BY <1>1
<1>3. /\ command_map \in [Devices -> 0..MaxWorkers]
      /\ active \in [Paths -> 0..MaxWorkers] /\ launched \in [Paths -> 0..MaxWorkers]
      /\ path_key \in [Workers -> Paths]
  BY DEF RInv, TypeOK, IInv, Typed
<1>4. /\ \A i \in 0..MaxWorkers : i # None <=> i \in Workers
      /\ \A i \in Workers : i # None
  BY SupervisorAssumption DEF Workers, None
<1> QED
  BY <1>1, <1>2, <1>3, <1>4 DEF InFlight, Devices

\* A route leads to a worker of the device.
LEMMA RouteIsNamed ==
    ASSUME RInv, NEW d \in Devices, NEW n \in 0..Len(manager_tx),
           NEW i, i = RouteIn(manager_tx, command_map, d, n), i # None
    PROVE  /\ i \in Workers /\ thread[i] # "unborn"
           /\ path_key[i] \in Paths /\ Identity(path_key[i]) = d
<1> DEFINE k == LastIn(manager_tx, d, n)
<1>1. n \in Nat /\ k \in 0..n /\ (k # 0 => Moves(manager_tx[k], d))
  BY EventTypes, LastInFinds
<1>2. CASE k = 0
  <2>1. i = command_map[d]
    BY <1>2 DEF RouteIn
  <2> QED
    BY <2>1, EventTypes DEF RInv, Named
<1>3. CASE k # 0
  <2>1. k \in 1..Len(manager_tx) /\ Identity(manager_tx[k].path_key) = d
    BY <1>1, <1>3, EventTypes DEF Moves
  <2>2. i = manager_tx[k].worker_id
    BY <1>3 DEF RouteIn
  <2> HIDE DEF k
  <2> QED
    BY <2>1, <2>2, EventTypes DEF RInv, Named
<1> QED
  BY <1>2, <1>3

\* The worker active at a path is where the events lead, for there is one path at a
\* time for each device.
LEMMA RouteIsActive ==
    ASSUME RInv, listening, phase # "done", NEW p \in Paths,
           NEW i, i = RouteIn(manager_tx, command_map, Identity(p), Len(manager_tx))
    PROVE  /\ active[p] # None => i = active[p]
           /\ p \in Taken /\ i # None => i = active[p]
<1>1. Identity(p) \in Devices /\ Len(manager_tx) \in 0..Len(manager_tx)
  BY EventTypes DEF Devices
<1>2. /\ i = None => active[p] = None
      /\ i # None => active[path_key[i]] = i
  BY <1>1 DEF RInv, Agree
<1>3. i # None => path_key[i] \in Paths /\ Identity(path_key[i]) = Identity(p)
  BY <1>1, RouteIsNamed
<1>4. i # None /\ p \in Taken => path_key[i] = p
  BY <1>2, <1>3 DEF RInv, Separate, Distinct, Taken
<1>5. active[p] # None => p \in Taken
  BY DEF Taken
<1> QED
  BY <1>2, <1>4, <1>5

\* What the events say, all together.
EventsTyped == manager_tx \in Seq(InFlight)
EventsHold == EventsTyped /\ Named /\ Attentive /\ Legal /\ Agree /\ Followed

\* Events sent leave the routes before them as they are.
LEMMA RouteSent ==
    ASSUME NEW s \in Seq(InFlight), NEW t \in Seq(InFlight), NEW map, NEW d,
           NEW n \in 0..Len(s)
    PROVE  RouteIn(s \o t, map, d, n) = RouteIn(s, map, d, n)
<1> DEFINE u == s \o t
<1>1. n \in Nat /\ n \in 0..n /\ \A k \in 1..n : s[k] = u[k]
  OBVIOUS
<1> HIDE DEF u
<1>2. \A k \in 1..n : k > n => ~Moves(u[k], d)
  BY <1>1
<1>3. RouteIn(u, map, d, n) = RouteIn(s, map, d, n)
  BY <1>1, <1>2, RouteStays
<1> QED
  BY <1>3 DEF u

\* Losses told, or nothing: the sessions that end are those of the workers that leave the
\* table, and what the events lead to stays what is active.
LEMMA FarewellKeeps ==
    ASSUME RInv, NEW gone, NEW t, Farewell(gone, t), Emit(t), Steady,
           \A p \in Paths : active'[p] = IF p \in gone THEN None ELSE active[p],
           phase # "done" \/ t = <<>>, phase' # "done" => phase # "done",
           shutdown => shutdown', UNCHANGED <<mgrvars, listening>>
    PROVE  EventsHold'
<1> DEFINE n == Len(manager_tx)
<1>1. /\ manager_tx \in Seq(InFlight) /\ n \in Nat
      /\ \A k \in 1..n : /\ manager_tx[k].worker_id \in Workers
                         /\ manager_tx[k].path_key \in Paths
                         /\ Identity(manager_tx[k].path_key) \in Devices
  BY EventTypes
<1>2. /\ t \in Seq(InFlight) /\ Len(t) \in Nat
      /\ \A k \in 1..Len(t) : /\ t[k].worker_id \in Workers
                              /\ t[k].path_key \in Paths
                              /\ Identity(t[k].path_key) \in Devices
  <2>1. t \in Seq(InFlight)
    BY DEF Farewell
  <2>2. \A k \in 1..Len(t) : t[k] \in InFlight
    BY <2>1
  <2> QED
    BY <2>1, <2>2 DEF InFlight, Devices
<1>3. /\ command_map' = command_map /\ listening' = listening /\ loop' = loop
      /\ AfterCall' = AfterCall
  BY DEF mgrvars, AfterCall
<1>4. Attentive'
  BY <1>3 DEF RInv, Attentive
<1>5. \A d \in Devices : command_map'[d] # None =>
         /\ Identity(path_key'[command_map'[d]]) = d
         /\ thread'[command_map'[d]] # "unborn"
  BY <1>3, EventTypes DEF RInv, Named, Steady
<1>6. CASE ~listening
  <2>1. manager_tx' = manager_tx
    BY <1>6 DEF Emit
  <2>2. Named'
    BY <1>1, <1>5, <2>1 DEF RInv, Named, Steady
  <2>3. EventsTyped'
    BY <1>1, <2>1 DEF EventsTyped
  <2> QED
    BY <1>3, <1>4, <1>6, <2>2, <2>3 DEF EventsHold, Legal, Agree, Followed
<1>7. CASE listening
  <2> DEFINE u == manager_tx'
  <2>0. u = manager_tx \o t
    BY <1>7 DEF Emit
  <2>1. /\ Len(u) = n + Len(t)
        /\ \A k \in 1..n : u[k] = manager_tx[k]
        /\ \A k \in 1..Len(t) : u[n + k] = t[k]
        /\ \A k \in 1..Len(u) :
              k \notin 1..n => k > n /\ k - n \in 1..Len(t) /\ u[k] = t[k - n]
    BY <1>1, <1>2, <2>0
  <2> HIDE DEF n, u
  <2>2. Named'
    <3>1. ASSUME NEW k \in 1..Len(u)
          PROVE  /\ u[k].path_key = path_key'[u[k].worker_id]
                 /\ thread'[u[k].worker_id] # "unborn"
      <4>1. CASE k \in 1..n
        BY <1>1, <2>1, <4>1 DEF RInv, Named, Steady, n
      <4>2. CASE k \notin 1..n
        <5>1. k - n \in 1..Len(t) /\ u[k] = t[k - n]
          BY <2>1, <4>2
        <5>2. ASSUME NEW l \in 1..Len(t)
              PROVE  /\ t[l].path_key = path_key'[t[l].worker_id]
                     /\ thread'[t[l].worker_id] # "unborn"
          BY <1>2 DEF Farewell, Steady
        <5> QED
          BY <5>1, <5>2
      <4> QED
        BY <4>1, <4>2
    <3> QED
      BY <1>5, <3>1 DEF Named, u
  <2>3. \A d, k : k \in 0..n => RouteIn(u, command_map, d, k) =
                                RouteIn(manager_tx, command_map, d, k)
    BY <1>1, <1>2, <2>0, RouteSent DEF n
  \* Two losses of a device are of one path, and so one loss.
  <2>4. \A j, k \in 1..Len(t), d \in Devices : Moves(t[j], d) /\ Moves(t[k], d) => j = k
    BY DEF Farewell, Final, Moves, RInv, Separate, Distinct, Taken
  <2>5. ASSUME NEW k \in 1..Len(t), t[k].kind = "Disconnected"
        PROVE  RouteIn(u, command_map, Identity(t[k].path_key), n + k - 1) = t[k].worker_id
    <3> DEFINE d == Identity(t[k].path_key)
    <3>1. t[k].path_key \in gone /\ t[k].worker_id = active[t[k].path_key]
          /\ active[t[k].path_key] # None /\ phase # "done"
      BY <2>5 DEF Farewell
    <3>2. RouteIn(manager_tx, command_map, d, n) = t[k].worker_id
      BY <1>2, <1>7, <3>1, RouteIsActive DEF n
    <3>3. \A l \in 1..n + k - 1 : l > n => ~Moves(u[l], d)
      <4> SUFFICES ASSUME NEW l \in 1..n + k - 1, l > n, Moves(u[l], d)
                   PROVE  FALSE
        OBVIOUS
      <4>1. l - n \in 1..Len(t) /\ u[l] = t[l - n] /\ l - n # k
        BY <1>1, <1>2, <2>1
      <4>2. Moves(t[k], d) /\ Moves(t[l - n], d) /\ d \in Devices
        BY <1>2, <2>5, <4>1 DEF Moves
      <4> QED
        BY <2>4, <4>1, <4>2
    <3>4. RouteIn(u, command_map, d, n + k - 1) = RouteIn(manager_tx, command_map, d, n)
      <4> DEFINE l == n + k - 1
      <4>1. l \in Nat /\ n \in 0..l
        BY <1>1
      <4>2. \A j \in 1..l : j > n => ~Moves(u[j], d)
        BY <3>3
      <4> HIDE DEF d, l
      <4>3. RouteIn(u, command_map, d, l) = RouteIn(manager_tx, command_map, d, n)
        BY <2>1, <4>1, <4>2, RouteStays
      <4> QED
        BY <4>3 DEF l
    <3> QED
      BY <3>2, <3>4
  <2>6. Legal'
    <3>1. ASSUME NEW k \in 1..Len(u)
          PROVE  Continues(u[k],
                     RouteIn(u, command_map, Identity(u[k].path_key), k - 1))
      <4>1. CASE k \in 1..n
        <5>1. k - 1 \in 0..n /\ u[k] = manager_tx[k]
          BY <1>1, <2>1, <4>1
        <5>2. Continues(manager_tx[k],
                  RouteIn(manager_tx, command_map, Identity(manager_tx[k].path_key), k - 1))
          BY <1>7, <4>1 DEF RInv, Legal, n
        <5> QED
          BY <2>3, <5>1, <5>2
      <4>2. CASE k \notin 1..n
        <5>1. k - n \in 1..Len(t) /\ u[k] = t[k - n] /\ n + (k - n) - 1 = k - 1
              /\ u[k].kind \in Final
          BY <1>1, <2>1, <4>2 DEF Farewell
        <5>2. u[k].kind = "Disconnected" =>
                 RouteIn(u, command_map, Identity(u[k].path_key), k - 1) = u[k].worker_id
          BY <2>5, <5>1
        <5> QED
          BY <5>1, <5>2 DEF Continues, Final
      <4> QED
        BY <4>1, <4>2
    <3> QED
      BY <1>3, <3>1 DEF Legal, Continues, u
  <2>7. ASSUME phase # "done", NEW d \in Devices, NEW j,
               j = RouteIn(u, command_map, d, Len(u))
        PROVE  /\ j = None => \A p \in Paths : Identity(p) = d => active'[p] = None
               /\ j # None => active'[path_key'[j]] = j
    <3> DEFINE i == RouteIn(manager_tx, command_map, d, n)
    <3>1. /\ n \in 0..n
          /\ i = None => \A p \in Paths : Identity(p) = d => active[p] = None
          /\ i # None => active[path_key[i]] = i
      BY <1>1, <1>7, <2>7 DEF RInv, Agree, n
    <3>2. CASE \E k \in 1..Len(t) : Moves(t[k], d)
      <4>1. PICK k \in 1..Len(t) : Moves(t[k], d)
        BY <3>2
      <4>2. t[k].kind = "Disconnected" /\ t[k].path_key \in gone
            /\ Identity(t[k].path_key) = d
        BY <4>1 DEF Moves, Farewell, Final
      <4> DEFINE m == LastIn(u, d, Len(u))
      <4>3. m \in 0..Len(u) /\ m >= n + k /\ Moves(u[m], d)
        <5>1. n + k \in 1..Len(u) /\ Len(u) \in Nat /\ u[n + k] = t[k]
          BY <1>1, <1>2, <2>1
        <5> QED
          BY <1>1, <4>1, <5>1, LastInFinds
      <4> HIDE DEF m
      <4>4. u[m].kind = "Disconnected" /\ m # 0
        <5>1. m \in 1..Len(u) /\ m \notin 1..n
          BY <1>1, <1>2, <2>1, <4>3
        <5>2. m - n \in 1..Len(t) /\ u[m] = t[m - n]
          BY <2>1, <5>1
        <5>3. u[m].kind \in Final
          BY <5>2 DEF Farewell
        <5> QED
          BY <4>3, <5>1, <5>3 DEF Moves, Final
      <4>5. j = None
        BY <2>7, <4>4 DEF RouteIn, m
      <4>6. \A p \in Paths : Identity(p) = d => active'[p] = None
        BY <4>2 DEF Farewell, RInv, Separate, Distinct, Taken
      <4> QED
        BY <4>5, <4>6
    <3>3. CASE ~ \E k \in 1..Len(t) : Moves(t[k], d)
      <4>1. j = i
        <5>1. \A k \in 1..Len(u) : k > n => ~Moves(u[k], d)
          <6> SUFFICES ASSUME NEW k \in 1..Len(u), k > n
                       PROVE  ~Moves(u[k], d)
            OBVIOUS
          <6>1. k \notin 1..n
            BY <1>1
          <6>2. k - n \in 1..Len(t) /\ u[k] = t[k - n]
            BY <2>1, <6>1
          <6> QED
            BY <3>3, <6>2
        <5>2. Len(u) \in Nat /\ n \in 0..Len(u)
          BY <1>1, <1>2, <2>1
        <5> QED
          BY <2>1, <2>7, <5>1, <5>2, RouteStays
      <4>2. CASE i = None
        BY <3>1, <4>1, <4>2 DEF Farewell
      <4>3. CASE i # None
        <5>1. i \in Workers /\ thread[i] # "unborn" /\ path_key[i] \in Paths
              /\ Identity(path_key[i]) = d
          BY <3>1, <4>3, RouteIsNamed DEF n
        <5> HIDE DEF i
        <5>2. path_key[i] \notin gone
          BY <3>1, <3>3, <4>3, <5>1 DEF Farewell, Moves
        <5> QED
          BY <3>1, <4>1, <4>3, <5>1, <5>2 DEF Steady
      <4> QED
        BY <4>2, <4>3
    <3> QED
      BY <3>2, <3>3
  <2>8. Agree'
    BY <1>3, <2>7 DEF Agree, u
  <2>9. ASSUME phase # "done", NEW i \in Workers, thread[i] # "unborn", NEW k \in 0..n,
               LossComes(i, k)
        PROVE  LossComes(i, k)'
    <3>1. path_key'[i] = path_key[i] /\ path_key[i] \in Paths
      BY <2>9, EventTypes DEF Steady
    <3>2. CASE \E l \in k + 1..n : manager_tx[l].worker_id = i
                                   /\ manager_tx[l].kind = "Disconnected"
      <4>1. PICK l \in k + 1..n : manager_tx[l].worker_id = i
                                  /\ manager_tx[l].kind = "Disconnected"
        BY <3>2
      <4>2. l \in k + 1..Len(u) /\ u[l] = manager_tx[l]
        BY <1>1, <1>2, <2>1, <2>9
      <4> QED
        BY <4>1, <4>2 DEF LossComes, u
    <3>3. CASE active[path_key[i]] = i /\ path_key[i] \notin gone
      BY <3>1, <3>3 DEF LossComes
    <3>4. CASE active[path_key[i]] = i /\ path_key[i] \in gone
      <4>1. PICK l \in 1..Len(t) : t[l].worker_id = i /\ t[l].kind = "Disconnected"
        BY <3>4 DEF Farewell
      <4>2. n + l \in k + 1..Len(u) /\ u[n + l] = t[l]
        BY <1>1, <1>2, <2>1, <2>9
      <4> QED
        BY <4>1, <4>2 DEF LossComes, u
    <3> QED
      BY <2>9, <3>2, <3>3, <3>4 DEF LossComes, n
  <2>10. Followed'
    <3>1. ASSUME phase # "done", NEW d \in Devices, command_map[d] # None
          PROVE  LossComes(command_map[d], 0)'
      <4>1. command_map[d] \in Workers /\ thread[command_map[d]] # "unborn"
        BY <3>1, EventTypes DEF RInv, Named
      <4>2. LossComes(command_map[d], 0) /\ 0 \in 0..n
        BY <1>1, <1>7, <3>1 DEF RInv, Followed
      <4>3. ASSUME NEW i, i = command_map[d]
            PROVE  LossComes(i, 0)'
        BY <2>9, <3>1, <4>1, <4>2, <4>3
      <4> QED
        BY <1>3, <4>3 DEF LossComes
    <3>2. ASSUME phase # "done", NEW k \in 1..Len(u), u[k].kind = "Connected"
          PROVE  LossComes(manager_tx[k].worker_id, k)'
      <4>1. k \in 1..n /\ u[k] = manager_tx[k]
        <5>1. k \notin 1..n => u[k].kind \in Final
          BY <2>1 DEF Farewell
        <5> QED
          BY <2>1, <3>2, <5>1 DEF Final
      <4>2. /\ manager_tx[k].worker_id \in Workers
            /\ thread[manager_tx[k].worker_id] # "unborn"
            /\ LossComes(manager_tx[k].worker_id, k) /\ k \in 0..n
        BY <1>1, <1>7, <3>2, <4>1 DEF RInv, Named, Followed, n
      <4>3. ASSUME NEW i, i = manager_tx[k].worker_id
            PROVE  LossComes(i, k)'
        BY <2>9, <3>2, <4>2, <4>3
      <4> QED
        BY <4>1, <4>3 DEF LossComes, u
    <3> QED
      BY <1>3, <3>1, <3>2 DEF Followed, u
  <2>11. EventsTyped'
    BY <1>1, <1>2, <2>0 DEF EventsTyped, u
  <2> QED
    BY <1>4, <2>2, <2>6, <2>8, <2>10, <2>11 DEF EventsHold
<1> QED
  BY <1>6, <1>7

\* One event sent after the others.
LEMMA OneSent ==
    ASSUME RInv, listening, NEW e \in InFlight, Emit(<<e>>)
    PROVE  /\ manager_tx' = manager_tx \o <<e>> /\ manager_tx' \in Seq(InFlight)
           /\ Len(manager_tx') = Len(manager_tx) + 1
           /\ \A k \in 1..Len(manager_tx) : manager_tx'[k] = manager_tx[k]
           /\ manager_tx'[Len(manager_tx) + 1] = e
           /\ \A k \in 1..Len(manager_tx') :
                 k \in 1..Len(manager_tx) \/ k = Len(manager_tx) + 1
           /\ \A d, k : k \in 0..Len(manager_tx) =>
                 RouteIn(manager_tx', command_map, d, k)
                 = RouteIn(manager_tx, command_map, d, k)
<1>1. manager_tx \in Seq(InFlight) /\ <<e>> \in Seq(InFlight)
  BY EventTypes
<1>2. manager_tx' = manager_tx \o <<e>> /\ manager_tx' \in Seq(InFlight)
  BY <1>1 DEF Emit
<1>3. \A d, k : k \in 0..Len(manager_tx) =>
         RouteIn(manager_tx', command_map, d, k) = RouteIn(manager_tx, command_map, d, k)
  <2> DEFINE t == <<e>>
  <2>1. t \in Seq(InFlight) /\ manager_tx' = manager_tx \o t
    BY <1>1, <1>2
  <2> HIDE DEF t
  <2>2. \A d, k : k \in 0..Len(manager_tx) =>
           RouteIn(manager_tx \o t, command_map, d, k) = RouteIn(manager_tx, command_map, d, k)
    BY <1>1, <2>1, RouteSent
  <2> QED
    BY <2>1, <2>2
<1> QED
  BY <1>1, <1>2, <1>3

\* A worker becomes active at its path and says so: its device has no session then.
LEMMA OpeningKeeps ==
    ASSUME RInv, listening, phase # "done", NEW i \in Workers, NEW e \in InFlight,
           e.kind = "Connected", e.worker_id = i, e.path_key = path_key[i],
           thread[i] # "unborn", launched[path_key[i]] = i,
           active' = [active EXCEPT ![path_key[i]] = i], Emit(<<e>>),
           UNCHANGED <<mgrvars, listening, shutdown, path_key, thread>>
    PROVE  EventsHold'
<1> DEFINE n == Len(manager_tx)
           u == manager_tx'
           q == path_key[i]
           d == Identity(q)
<1>1. /\ n \in Nat /\ i # None /\ q \in Paths /\ d \in Devices
      /\ active'[q] = i /\ \A p \in Paths : p # q => active'[p] = active[p]
  BY EventTypes DEF Devices
<1>2. q \in Taken /\ active[q] = None
  BY <1>1 DEF Taken, RInv, IInv, Tables
<1>3. RouteIn(manager_tx, command_map, d, n) = None
  BY <1>1, <1>2, RouteIsActive
<1>4. /\ command_map' = command_map /\ listening' = listening /\ loop' = loop
      /\ AfterCall' = AfterCall /\ path_key' = path_key /\ thread' = thread
  BY DEF mgrvars, AfterCall
<1>5. Attentive'
  BY <1>4 DEF RInv, Attentive
<1>6. /\ Len(u) = n + 1 /\ \A k \in 1..n : u[k] = manager_tx[k]
      /\ u[n + 1] = e
      /\ \A k \in 1..Len(u) : k \in 1..n \/ k = n + 1
      /\ \A c, k : k \in 0..n => RouteIn(u, command_map, c, k)
                                 = RouteIn(manager_tx, command_map, c, k)
  BY OneSent
<1> HIDE DEF n, u
<1>7. Named'
  BY <1>4, <1>6 DEF RInv, Named, n, u
<1>8. Legal'
  <2>1. ASSUME NEW k \in 1..Len(u)
        PROVE  Continues(u[k], RouteIn(u, command_map, Identity(u[k].path_key), k - 1))
    <3>1. CASE k \in 1..n
      <4>1. k - 1 \in 0..n /\ u[k] = manager_tx[k]
        BY <1>1, <1>6, <3>1
      <4>2. Continues(manager_tx[k],
                RouteIn(manager_tx, command_map, Identity(manager_tx[k].path_key), k - 1))
        BY <3>1 DEF RInv, Legal, n
      <4> QED
        BY <1>6, <4>1, <4>2
    <3>2. CASE k = n + 1
      <4>1. k - 1 = n /\ n \in 0..n /\ u[k] = e
        BY <1>1, <1>6, <3>2
      <4> QED
        BY <1>3, <1>6, <4>1 DEF Continues
    <3> QED
      BY <1>6, <3>1, <3>2
  <2> QED
    BY <1>4, <2>1 DEF Legal, Continues, u
<1>9. Agree'
  <2>1. ASSUME NEW c \in Devices, NEW j, j = RouteIn(u, command_map, c, Len(u))
        PROVE  /\ j = None => \A p \in Paths : Identity(p) = c => active'[p] = None
               /\ j # None => active'[path_key[j]] = j
    <3>1. CASE c = d
      <4>1. Moves(u[n + 1], c) /\ n + 1 \in Nat \ {0} /\ Len(u) = n + 1
        BY <1>1, <1>6, <3>1 DEF Moves
      <4>2. j = i
        BY <1>6, <2>1, <4>1, RouteMoves
      <4> QED
        BY <1>1, <4>2
    <3>2. CASE c # d
      <4> DEFINE r == RouteIn(manager_tx, command_map, c, n)
      <4>1. j = r
        <5> DEFINE l == n + 1
        <5>1. \A k \in 1..l : k > n => ~Moves(u[k], c)
          BY <1>1, <1>6, <3>2 DEF Moves
        <5>2. l \in Nat /\ n \in 0..l /\ Len(u) = l
          BY <1>1, <1>6
        <5> HIDE DEF l
        <5>3. RouteIn(u, command_map, c, l) = r
          BY <1>6, <5>1, <5>2, RouteStays
        <5> QED
          BY <2>1, <5>2, <5>3
      <4>2. /\ r = None => \A p \in Paths : Identity(p) = c => active[p] = None
            /\ r # None => active[path_key[r]] = r
        BY DEF RInv, Agree, n
      <4>3. r # None => path_key[r] \in Paths /\ Identity(path_key[r]) = c
        BY <1>1, RouteIsNamed DEF n
      <4> HIDE DEF r
      <4> QED
        BY <1>1, <3>2, <4>1, <4>2, <4>3
    <3> QED
      BY <3>1, <3>2
  <2> QED
    BY <1>4, <2>1 DEF Agree, u
<1>10. ASSUME NEW j \in Workers, NEW k \in 0..n, LossComes(j, k)
       PROVE  LossComes(j, k)'
  <2>1. CASE active[path_key[j]] = j
    <3>1. path_key[j] \in Paths /\ j # None
      BY EventTypes
    <3>2. path_key[j] # q
      BY <1>2, <2>1, <3>1
    <3> QED
      BY <1>1, <1>4, <2>1, <3>1, <3>2 DEF LossComes
  <2>2. CASE \E l \in k + 1..n : manager_tx[l].worker_id = j
                                 /\ manager_tx[l].kind = "Disconnected"
    <3>1. PICK l \in k + 1..n : manager_tx[l].worker_id = j
                                /\ manager_tx[l].kind = "Disconnected"
      BY <2>2
    <3>2. l \in k + 1..Len(u) /\ u[l] = manager_tx[l]
      BY <1>1, <1>6, <1>10
    <3> QED
      BY <3>1, <3>2 DEF LossComes, u
  <2> QED
    BY <1>10, <2>1, <2>2 DEF LossComes, n
<1>11. Followed'
  <2>1. ASSUME NEW c \in Devices, command_map[c] # None
        PROVE  LossComes(command_map[c], 0)'
    <3>1. command_map[c] \in Workers /\ LossComes(command_map[c], 0) /\ 0 \in 0..n
      BY <1>1, <2>1, EventTypes DEF RInv, Followed
    <3>2. ASSUME NEW j, j = command_map[c]
          PROVE  LossComes(j, 0)'
      BY <1>10, <3>1, <3>2
    <3> QED
      BY <1>4, <3>2 DEF LossComes
  <2>2. ASSUME NEW k \in 1..Len(u), u[k].kind = "Connected"
        PROVE  LossComes(manager_tx[k].worker_id, k)'
    <3>1. CASE k \in 1..n
      <4>1. /\ u[k] = manager_tx[k] /\ manager_tx[k].worker_id \in Workers /\ k \in 0..n
            /\ LossComes(manager_tx[k].worker_id, k)
        BY <1>1, <1>6, <2>2, <3>1, EventTypes DEF RInv, Followed, n
      <4>2. ASSUME NEW j, j = manager_tx[k].worker_id
            PROVE  LossComes(j, k)'
        BY <1>10, <4>1, <4>2
      <4> QED
        BY <4>1, <4>2 DEF LossComes, u
    <3>2. CASE k = n + 1
      BY <1>1, <1>4, <1>6, <3>2 DEF LossComes, u
    <3> QED
      BY <1>6, <3>1, <3>2
  <2> QED
    BY <1>4, <2>1, <2>2 DEF Followed, u
<1>12. EventsTyped'
  BY OneSent, EventTypes DEF EventsTyped
<1> QED
  BY <1>5, <1>7, <1>8, <1>9, <1>11, <1>12 DEF EventsHold

\* Input of the active worker: its device has a session with it.
LEMMA InputKeeps ==
    ASSUME RInv, listening, phase # "done", NEW i \in Workers, NEW e \in InFlight,
           e.kind = "Input", e.worker_id = i, e.path_key = path_key[i],
           thread[i] # "unborn", active[path_key[i]] = i, Emit(<<e>>),
           UNCHANGED <<mgrvars, listening, shutdown, path_key, thread, active>>
    PROVE  EventsHold'
<1> DEFINE n == Len(manager_tx)
           u == manager_tx'
<1>1. /\ n \in Nat /\ i # None /\ path_key[i] \in Paths
      /\ Identity(path_key[i]) \in Devices
  BY EventTypes DEF Devices
<1>2. RouteIn(manager_tx, command_map, Identity(path_key[i]), n) = i
  BY <1>1, RouteIsActive
<1>3. /\ command_map' = command_map /\ listening' = listening /\ loop' = loop
      /\ AfterCall' = AfterCall /\ path_key' = path_key /\ thread' = thread
      /\ active' = active
  BY DEF mgrvars, AfterCall
<1>4. Attentive'
  BY <1>3 DEF RInv, Attentive
<1>5. /\ Len(u) = n + 1 /\ \A k \in 1..n : u[k] = manager_tx[k]
      /\ u[n + 1] = e
      /\ \A k \in 1..Len(u) : k \in 1..n \/ k = n + 1
      /\ \A c, k : k \in 0..n => RouteIn(u, command_map, c, k)
                                 = RouteIn(manager_tx, command_map, c, k)
  BY OneSent
<1> HIDE DEF n, u
<1>6. Named'
  BY <1>3, <1>5 DEF RInv, Named, n, u
<1>7. Legal'
  <2>1. ASSUME NEW k \in 1..Len(u)
        PROVE  Continues(u[k], RouteIn(u, command_map, Identity(u[k].path_key), k - 1))
    <3>1. CASE k \in 1..n
      <4>1. k - 1 \in 0..n /\ u[k] = manager_tx[k]
        BY <1>1, <1>5, <3>1
      <4>2. Continues(manager_tx[k],
                RouteIn(manager_tx, command_map, Identity(manager_tx[k].path_key), k - 1))
        BY <3>1 DEF RInv, Legal, n
      <4> QED
        BY <1>5, <4>1, <4>2
    <3>2. CASE k = n + 1
      <4>1. k - 1 = n /\ n \in 0..n /\ u[k] = e
        BY <1>1, <1>5, <3>2
      <4> QED
        BY <1>2, <1>5, <4>1 DEF Continues
    <3> QED
      BY <1>5, <3>1, <3>2
  <2> QED
    BY <1>3, <2>1 DEF Legal, Continues, u
<1>8. Agree'
  <2>1. \A c \in Devices : RouteIn(u, command_map, c, Len(u))
                           = RouteIn(manager_tx, command_map, c, n)
    <3> SUFFICES ASSUME NEW c \in Devices
                 PROVE  RouteIn(u, command_map, c, Len(u))
                        = RouteIn(manager_tx, command_map, c, n)
      OBVIOUS
    <3> DEFINE l == n + 1
    <3>1. \A k \in 1..l : k > n => ~Moves(u[k], c)
      BY <1>1, <1>5 DEF Moves
    <3>2. l \in Nat /\ n \in 0..l /\ Len(u) = l
      BY <1>1, <1>5
    <3> HIDE DEF l
    <3> QED
      BY <1>5, <3>1, <3>2, RouteStays
  <2> QED
    BY <1>3, <2>1 DEF RInv, Agree, n, u
<1>9. ASSUME NEW j \in Workers, NEW k \in 0..n, LossComes(j, k)
      PROVE  LossComes(j, k)'
  <2>1. CASE active[path_key[j]] = j
    BY <1>3, <2>1 DEF LossComes
  <2>2. CASE \E l \in k + 1..n : manager_tx[l].worker_id = j
                                 /\ manager_tx[l].kind = "Disconnected"
    <3>1. PICK l \in k + 1..n : manager_tx[l].worker_id = j
                                /\ manager_tx[l].kind = "Disconnected"
      BY <2>2
    <3>2. l \in k + 1..Len(u) /\ u[l] = manager_tx[l]
      BY <1>1, <1>5, <1>9
    <3> QED
      BY <3>1, <3>2 DEF LossComes, u
  <2> QED
    BY <1>9, <2>1, <2>2 DEF LossComes, n
<1>10. Followed'
  <2>1. ASSUME NEW c \in Devices, command_map[c] # None
        PROVE  LossComes(command_map[c], 0)'
    <3>1. command_map[c] \in Workers /\ LossComes(command_map[c], 0) /\ 0 \in 0..n
      BY <1>1, <2>1, EventTypes DEF RInv, Followed
    <3>2. ASSUME NEW j, j = command_map[c]
          PROVE  LossComes(j, 0)'
      BY <1>9, <3>1, <3>2
    <3> QED
      BY <1>3, <3>2 DEF LossComes
  <2>2. ASSUME NEW k \in 1..Len(u), u[k].kind = "Connected"
        PROVE  LossComes(manager_tx[k].worker_id, k)'
    <3>1. k \in 1..n /\ u[k] = manager_tx[k]
      BY <1>5, <2>2
    <3>2. /\ manager_tx[k].worker_id \in Workers /\ k \in 0..n
          /\ LossComes(manager_tx[k].worker_id, k)
      BY <1>1, <2>2, <3>1, EventTypes DEF RInv, Followed, n
    <3>3. ASSUME NEW j, j = manager_tx[k].worker_id
          PROVE  LossComes(j, k)'
      BY <1>9, <3>2, <3>3
    <3> QED
      BY <3>1, <3>3 DEF LossComes, u
  <2> QED
    BY <1>3, <2>1, <2>2 DEF Followed, u
<1>11. EventsTyped'
  BY OneSent, EventTypes DEF EventsTyped
<1> QED
  BY <1>4, <1>6, <1>7, <1>8, <1>10, <1>11 DEF EventsHold

-----------------------------------------------------------------------------
(* Events received. *)

\* The event in hand moves the routing table as it moves every route, and the core will
\* follow.
LEMMA EventInHand ==
    ASSUME RInv, ReceiveEvent
    PROVE  /\ Received \in InFlight /\ Len(manager_tx) \in Nat \ {0}
           /\ Received = manager_tx[1]
           /\ Len(manager_tx') = Len(manager_tx) - 1
           /\ \A k \in 1..Len(manager_tx') : /\ k + 1 \in 1..Len(manager_tx)
                                             /\ manager_tx'[k] = manager_tx[k + 1]
           /\ command_map' = [d \in Devices |->
                 IF Moves(Received, d)
                 THEN IF Received.kind = "Connected" THEN Received.worker_id ELSE None
                 ELSE command_map[d]]
           /\ loop' = Receiving \/ \E call \in Calls : loop' = Calling(call, Received)
           /\ listening => AfterCall' = {d \in Devices : command_map'[d] # None}
<1>1. /\ manager_tx \in Seq(InFlight) /\ manager_tx # <<>> /\ manager_tx' = Tail(manager_tx)
      /\ loop = Receiving /\ core_devices' = core_devices /\ listening' = listening
  BY EventTypes DEF ReceiveEvent
<1>2. /\ Len(manager_tx) \in Nat \ {0} /\ Received = manager_tx[1]
      /\ Len(manager_tx') = Len(manager_tx) - 1
      /\ \A k \in 1..Len(manager_tx') : /\ k + 1 \in 1..Len(manager_tx)
                                        /\ manager_tx'[k] = manager_tx[k + 1]
  BY <1>1 DEF Received
<1>3. Received \in InFlight /\ Identity(Received.path_key) \in Devices
      /\ Received.worker_id \in Workers /\ Received.worker_id # None
  BY <1>2, EventTypes
<1>4. command_map \in [Devices -> 0..MaxWorkers]
  BY EventTypes
<1>5. listening => core_devices = {d \in Devices : command_map[d] # None}
  BY <1>1 DEF RInv, Attentive, AfterCall, Receiving
<1> HIDE DEF Received
<1>6. CASE RegisterDevice
  <2>1. /\ Received.kind = "Connected" /\ loop' = Calling("set_device", Received)
        /\ command_map' = [command_map EXCEPT
              ![Identity(Received.path_key)] = Received.worker_id]
    BY <1>6 DEF RegisterDevice
  <2>2. command_map' = [d \in Devices |->
           IF Moves(Received, d) THEN Received.worker_id ELSE command_map[d]]
    BY <1>4, <2>1 DEF Moves
  <2>3. AfterCall' = core_devices \cup {Identity(Received.path_key)}
    BY <1>1, <2>1 DEF AfterCall, Calling
  <2>4. listening => AfterCall' = {d \in Devices : command_map'[d] # None}
    BY <1>3, <1>5, <2>1, <2>2, <2>3 DEF Moves
  <2> QED
    BY <1>2, <1>3, <2>1, <2>2, <2>4 DEF Calls
<1>7. CASE UnregisterDevice
  <2>1. /\ Received.kind = "Disconnected" /\ loop' = Calling("remove_device", Received)
        /\ command_map' = [command_map EXCEPT ![Identity(Received.path_key)] = None]
    BY <1>7 DEF UnregisterDevice
  <2>2. command_map' = [d \in Devices |->
           IF Moves(Received, d) THEN None ELSE command_map[d]]
    BY <1>4, <2>1 DEF Moves
  <2>3. AfterCall' = core_devices \ {Identity(Received.path_key)}
    BY <1>1, <2>1 DEF AfterCall, Calling
  <2>4. listening => AfterCall' = {d \in Devices : command_map'[d] # None}
    BY <1>3, <1>5, <2>1, <2>2, <2>3 DEF Moves
  <2> QED
    BY <1>2, <1>3, <2>1, <2>2, <2>4 DEF Calls
<1>8. CASE RouteInput \/ NoteFailure
  <2>1. /\ Received.kind \in {"Input", "Failed"} /\ command_map' = command_map
        /\ \/ loop' = Receiving
           \/ loop' = Calling("handle_hardware_message", Received)
    BY <1>1, <1>8 DEF RouteInput, NoteFailure
  <2>2. command_map' = [d \in Devices |->
           IF Moves(Received, d)
           THEN IF Received.kind = "Connected" THEN Received.worker_id ELSE None
           ELSE command_map[d]]
    BY <1>4, <2>1 DEF Moves
  <2>3. AfterCall' = core_devices
    BY <1>1, <2>1 DEF AfterCall, Calling, Receiving
  <2> QED
    BY <1>2, <1>3, <1>5, <2>1, <2>2, <2>3 DEF Calls
<1> QED
  BY <1>6, <1>7, <1>8 DEF ReceiveEvent

LEMMA ReceiveKeeps == RInv /\ ReceiveEvent => EventsHold'
<1> SUFFICES ASSUME RInv, ReceiveEvent
             PROVE  EventsHold'
  OBVIOUS
<1> DEFINE n == Len(manager_tx)
           u == manager_tx'
           map == command_map'
<1>1. /\ listening' = listening /\ shutdown' = shutdown /\ phase' = phase
      /\ path_key' = path_key /\ thread' = thread /\ active' = active
      /\ loop = Receiving
  BY DEF ReceiveEvent, environment, threads, registry
<1>2. /\ Received \in InFlight /\ n \in Nat \ {0} /\ Received = manager_tx[1]
      /\ Len(u) = n - 1
      /\ \A k \in 1..Len(u) : k + 1 \in 1..n /\ u[k] = manager_tx[k + 1]
      /\ map = [d \in Devices |->
            IF Moves(Received, d)
            THEN IF Received.kind = "Connected" THEN Received.worker_id ELSE None
            ELSE command_map[d]]
      /\ loop' = Receiving \/ \E call \in Calls : loop' = Calling(call, Received)
      /\ listening => AfterCall' = {d \in Devices : map[d] # None}
  BY EventInHand
<1>3. /\ 1 \in 1..n /\ Received.worker_id \in Workers
      /\ Identity(Received.path_key) \in Devices
      /\ Received.path_key = path_key[Received.worker_id]
      /\ thread[Received.worker_id] # "unborn"
  BY <1>2, EventTypes DEF RInv, Named
<1> HIDE DEF n, u, map
<1>4. Attentive'
  BY <1>1, <1>2 DEF RInv, Attentive, Receiving, Calling, Calls, map
<1>5. Named'
  <2>1. \A k \in 1..Len(u) : /\ u[k].path_key = path_key[u[k].worker_id]
                             /\ thread[u[k].worker_id] # "unborn"
    BY <1>2 DEF RInv, Named, n
  <2>2. \A d \in Devices : map[d] # None => /\ Identity(path_key[map[d]]) = d
                                            /\ thread[map[d]] # "unborn"
    BY <1>2, <1>3 DEF RInv, Named, Moves
  <2> QED
    BY <1>1, <2>1, <2>2 DEF Named, u, map
<1>6. ASSUME NEW d \in Devices, NEW k \in 0..Len(u)
      PROVE  RouteIn(u, map, d, k) = RouteIn(manager_tx, command_map, d, k + 1)
  <2>1. map[d] = RouteIn(manager_tx, command_map, d, 1)
    <3>1. CASE Moves(Received, d)
      BY <1>2, <3>1, RouteMoves
    <3>2. CASE ~Moves(Received, d)
      <4>1. 1 \in Nat /\ 0 \in 0..1 /\ (\A j \in 1..1 : j > 0 => ~Moves(manager_tx[j], d))
            /\ \A j \in 1..0 : manager_tx[j] = manager_tx[j]
        BY <1>2, <3>2
      <4>2. RouteIn(manager_tx, command_map, d, 1) = RouteIn(manager_tx, command_map, d, 0)
        BY <4>1, RouteStays
      <4> QED
        BY <1>2, <3>2, <4>2, RouteStart
    <3> QED
      BY <3>1, <3>2
  <2>2. k \in Nat /\ \A j \in 1..k : u[j] = manager_tx[j + 1]
    BY <1>2
  <2> QED
    BY <2>1, <2>2, RouteOfTail
<1>7. Legal'
  <2>1. ASSUME listening, NEW k \in 1..Len(u)
        PROVE  Continues(u[k], RouteIn(u, map, Identity(u[k].path_key), k - 1))
    <3>1. k + 1 \in 1..n /\ u[k] = manager_tx[k + 1] /\ k - 1 \in 0..Len(u)
          /\ (k - 1) + 1 = k /\ (k + 1) - 1 = k
          /\ Identity(u[k].path_key) \in Devices
      BY <1>2, EventTypes DEF n
    <3>2. Continues(manager_tx[k + 1], RouteIn(manager_tx, command_map,
              Identity(manager_tx[k + 1].path_key), k))
      BY <2>1, <3>1 DEF RInv, Legal, n
    <3>3. RouteIn(u, map, Identity(u[k].path_key), k - 1)
          = RouteIn(manager_tx, command_map, Identity(u[k].path_key), k)
      BY <1>6, <3>1
    <3> QED
      BY <3>1, <3>2, <3>3
  <2> QED
    BY <1>1, <2>1 DEF Legal, Continues, u, map
<1>8. Agree'
  <2>1. Len(u) \in 0..Len(u) /\ Len(u) + 1 = n
    BY <1>2
  <2>2. \A d \in Devices : RouteIn(u, map, d, Len(u))
                           = RouteIn(manager_tx, command_map, d, n)
    BY <1>6, <2>1
  <2> QED
    BY <1>1, <2>2 DEF RInv, Agree, n, u, map
<1>9. ASSUME NEW i, NEW k \in 1..n, LossComes(i, k)
      PROVE  LossComes(i, k - 1)'
  <2>1. CASE active[path_key[i]] = i
    BY <1>1, <2>1 DEF LossComes
  <2>2. CASE \E l \in k + 1..n : manager_tx[l].worker_id = i
                                 /\ manager_tx[l].kind = "Disconnected"
    <3>1. PICK l \in k + 1..n : manager_tx[l].worker_id = i
                                /\ manager_tx[l].kind = "Disconnected"
      BY <2>2
    <3>2. l - 1 \in (k - 1) + 1..Len(u) /\ l - 1 \in 1..Len(u) /\ (l - 1) + 1 = l
      BY <1>2, <1>9
    <3>3. u[l - 1] = manager_tx[l]
      BY <1>2, <3>2
    <3> QED
      BY <3>1, <3>2, <3>3 DEF LossComes, u
  <2> QED
    BY <1>9, <2>1, <2>2 DEF LossComes, n
<1>10. Followed'
  <2>1. ASSUME listening, phase # "done", NEW d \in Devices, map[d] # None
        PROVE  LossComes(command_map[d], 0)'
    <3>1. CASE Moves(Received, d)
      <4>1. map[d] = Received.worker_id /\ Received.kind = "Connected"
        BY <1>2, <2>1, <3>1
      <4>2. LossComes(manager_tx[1].worker_id, 1)
        BY <1>2, <1>3, <2>1, <4>1 DEF RInv, Followed, n
      <4>3. ASSUME NEW i, i = manager_tx[1].worker_id
            PROVE  LossComes(i, 1 - 1)'
        BY <1>3, <1>9, <4>2, <4>3
      <4> QED
        BY <1>2, <4>1, <4>3 DEF LossComes, map
    <3>2. CASE ~Moves(Received, d)
      <4>1. map[d] = command_map[d] /\ command_map[d] \in Workers
        BY <1>2, <2>1, <3>2, EventTypes
      <4>2. LossComes(command_map[d], 0) /\ Identity(path_key[command_map[d]]) = d
        BY <2>1, <4>1 DEF RInv, Followed, Named
      <4>3. \A l \in 1..n : manager_tx[l].worker_id = command_map[d]
                            /\ manager_tx[l].kind = "Disconnected" => l # 1
        BY <1>2, <1>3, <3>2, <4>2 DEF Moves
      <4>4. CASE active[path_key[command_map[d]]] = command_map[d]
        BY <1>1, <4>1, <4>4 DEF LossComes, map
      <4>5. CASE active[path_key[command_map[d]]] # command_map[d]
        <5>1. PICK l \in 0 + 1..n : manager_tx[l].worker_id = command_map[d]
                                    /\ manager_tx[l].kind = "Disconnected"
          BY <4>2, <4>5 DEF LossComes, n
        <5>2. l - 1 \in 1..Len(u) /\ l - 1 \in 0 + 1..Len(u) /\ (l - 1) + 1 = l
          BY <1>2, <4>3, <5>1
        <5>3. u[l - 1] = manager_tx[l]
          BY <1>2, <5>2
        <5> QED
          BY <4>1, <5>1, <5>2, <5>3 DEF LossComes, u, map
      <4> QED
        BY <4>4, <4>5
    <3> QED
      BY <3>1, <3>2
  <2>2. ASSUME listening, phase # "done", NEW k \in 1..Len(u), u[k].kind = "Connected"
        PROVE  LossComes(manager_tx[k].worker_id, k)'
    <3>1. k + 1 \in 1..n /\ u[k] = manager_tx[k + 1] /\ (k + 1) - 1 = k
      BY <1>2
    <3>2. LossComes(manager_tx[k + 1].worker_id, k + 1)
      BY <2>2, <3>1 DEF RInv, Followed, n
    <3>3. ASSUME NEW i, i = manager_tx[k + 1].worker_id
          PROVE  LossComes(i, k)'
      BY <1>9, <3>1, <3>2, <3>3
    <3> QED
      BY <3>1, <3>3 DEF LossComes, u
  <2> QED
    BY <1>1, <2>1, <2>2 DEF Followed, u, map
<1>11. EventsTyped'
  BY EventTypes DEF EventsTyped, ReceiveEvent
<1> QED
  BY <1>4, <1>5, <1>7, <1>8, <1>10, <1>11 DEF EventsHold

\* The core's answer, and the end of the loop.
LEMMA AnswerKeeps == RInv /\ CoreAnswers => EventsHold'
<1> SUFFICES ASSUME RInv, CoreAnswers
             PROVE  EventsHold'
  OBVIOUS
<1>1. /\ core_devices' = AfterCall /\ loop' = Receiving /\ command_map' = command_map
      /\ UNCHANGED <<manager_tx, listening, shutdown, phase, path_key, thread, active>>
  BY DEF CoreAnswers, svars, threads, registry, control
<1>2. AfterCall' = AfterCall /\ loop'.at # "aborted" /\ loop.at # "aborted"
  BY <1>1 DEF AfterCall, Receiving, CoreAnswers, Calls
<1>3. Attentive'
  BY <1>1, <1>2 DEF RInv, Attentive
<1>4. Named' /\ Legal'
  BY <1>1 DEF RInv, Named, Legal
<1>5. Agree' /\ Followed'
  BY <1>1 DEF RInv, Agree, Followed, LossComes
<1>6. EventsTyped'
  BY <1>1, EventTypes DEF EventsTyped
<1> QED
  BY <1>3, <1>4, <1>5, <1>6 DEF EventsHold

LEMMA EndKeeps == RInv /\ EndLoop => EventsHold'
<1> SUFFICES ASSUME RInv, EndLoop
             PROVE  EventsHold'
  OBVIOUS
<1>1. /\ listening' = FALSE /\ shutdown' = TRUE /\ manager_tx' = <<>>
      /\ loop' = [at |-> "aborted"] /\ UNCHANGED <<command_map, path_key, thread>>
  BY DEF EndLoop, threads
<1>2. Named'
  BY <1>1 DEF RInv, Named
<1>3. EventsTyped'
  BY <1>1 DEF EventsTyped
<1> QED
  BY <1>1, <1>2, <1>3 DEF EventsHold, Attentive, Legal, Agree, Followed

-----------------------------------------------------------------------------
(* The events of the supervisor's steps. *)

\* Nothing told, and nothing gone.
LEMMA QuietKeeps ==
    ASSUME RInv, Steady, phase' # "done" => phase # "done", shutdown => shutdown',
           UNCHANGED <<mgrvars, listening, manager_tx, active>>
    PROVE  EventsHold'
<1>1. manager_tx \in Seq(InFlight)
  BY EventTypes
<1>2. Emit(<<>>)
  BY <1>1 DEF Emit
<1>3. Farewell({}, <<>>)
  BY DEF Farewell
<1> QED
  BY <1>2, <1>3, FarewellKeeps

\* The manager that no longer listens is told nothing.
LEMMA DeafKeeps ==
    ASSUME RInv, ~listening, Steady, shutdown => shutdown',
           UNCHANGED <<mgrvars, listening, manager_tx>>
    PROVE  EventsHold'
<1>1. Attentive'
  BY DEF RInv, Attentive, mgrvars
<1>2. Named'
  BY EventTypes DEF RInv, Named, Steady, mgrvars
<1>3. EventsTyped'
  BY EventTypes DEF EventsTyped
<1> QED
  BY <1>1, <1>2, <1>3 DEF EventsHold, Legal, Agree, Followed

\* An event of a worker is of its path.
LEMMA EventIs ==
    ASSUME RInv, NEW kind \in ReportKinds, NEW i \in Workers
    PROVE  /\ Event(kind, i) \in InFlight
           /\ Event(kind, i).kind = kind /\ Event(kind, i).worker_id = i
           /\ Event(kind, i).path_key = path_key[i]
BY EventTypes DEF Event, InFlight

\* The end of one worker told: its loss if it was active, perhaps its failure.
LEMMA EndTold ==
    ASSUME RInv, NEW i \in Workers, thread[i] # "unborn", NEW t,
           \/ t \in {<<>>, <<Event("Failed", i)>>} /\ active[path_key[i]] # i
           \/ /\ t \in {<<Event("Disconnected", i)>>,
                        <<Event("Disconnected", i), Event("Failed", i)>>}
              /\ active[path_key[i]] = i
    PROVE  Farewell({p \in Paths : active[p] = i}, t)
<1> DEFINE gone == {p \in Paths : active[p] = i}
           loss == Event("Disconnected", i)
           failure == Event("Failed", i)
<1>1. /\ path_key[i] \in Paths /\ i # None
      /\ \A p \in Paths : active[p] = i => p = path_key[i]
  BY EventTypes DEF RInv, IInv, Tables
<1>2. /\ loss \in InFlight /\ loss.kind = "Disconnected" /\ loss.worker_id = i
      /\ loss.path_key = path_key[i]
      /\ failure \in InFlight /\ failure.kind = "Failed" /\ failure.worker_id = i
      /\ failure.path_key = path_key[i]
  BY EventIs DEF ReportKinds
<1> HIDE DEF loss, failure
<1>3. CASE active[path_key[i]] # i
  <2>1. gone = {}
    BY <1>1, <1>3
  <2>2. t \in Seq(InFlight) /\ \A k \in 1..Len(t) : t[k] = failure
    <3>1. CASE t = <<>>
      BY <3>1
    <3>2. CASE t = <<failure>>
      BY <1>2, <3>2
    <3> QED
      BY <1>3, <3>1, <3>2 DEF failure
  <2>3. Farewell({}, t)
    BY <1>2, <2>2 DEF Farewell, Final
  <2> QED
    BY <2>1, <2>3
<1>4. CASE active[path_key[i]] = i
  <2>1. gone = {path_key[i]}
    BY <1>1, <1>4
  <2>2. /\ t \in Seq(InFlight) /\ 1 \in 1..Len(t) /\ t[1] = loss
        /\ \A k \in 1..Len(t) : k = 1 \/ t[k] = failure
    <3>1. CASE t = <<loss>>
      BY <1>2, <3>1
    <3>2. CASE t = <<loss, failure>>
      BY <1>2, <3>2
    <3> QED
      BY <1>4, <3>1, <3>2 DEF loss, failure
  <2>3. \A k \in 1..Len(t) : t[k].kind = "Disconnected" => k = 1
    BY <1>2, <2>2
  <2>4. Farewell({path_key[i]}, t)
    BY <1>1, <1>2, <1>4, <2>2, <2>3 DEF Farewell, Final
  <2> QED
    BY <2>1, <2>4
<1> QED
  BY <1>3, <1>4

LEMMA HandlingKeeps == RInv /\ HandleWorkerReport /\ UNCHANGED mgrvars => EventsHold'
<1> SUFFICES ASSUME RInv, HandleWorkerReport, UNCHANGED mgrvars
             PROVE  EventsHold'
  OBVIOUS
<1> DEFINE i == Next1.worker_id
           q == Next1.path_key
<1>1. /\ i \in Workers /\ q = path_key[i] /\ q \in Paths /\ thread[i] # "unborn"
  BY ReportInHand DEF HandleWorkerReport, RInv, InFlight
<1>2. /\ UNCHANGED <<path_key, thread, phase, listening, shutdown>>
      /\ phase # "done" /\ Steady
  BY DEF HandleWorkerReport, Steady
<1>3. /\ active \in [Paths -> 0..MaxWorkers] /\ manager_tx \in Seq(InFlight)
  BY EventTypes
<1> HIDE DEF i, q
<1>4. CASE ~listening
  <2>1. UNCHANGED manager_tx
    BY <1>4 DEF HandleWorkerReport, HandleConnected, HandleInput, HandleDisconnected,
                HandleFailed, Emit
  <2> QED
    BY <1>2, <1>4, <2>1, DeafKeeps
<1>5. CASE listening /\ HandleConnected
  <2>1. CASE launched[q] = i
    <3>1. active' = [active EXCEPT ![q] = i] /\ Emit(<<Event("Connected", i)>>)
      BY <1>5, <2>1 DEF HandleConnected, i, q
    <3>2. /\ Event("Connected", i) \in InFlight /\ Event("Connected", i).kind = "Connected"
          /\ Event("Connected", i).worker_id = i /\ Event("Connected", i).path_key = q
      BY <1>1, EventIs DEF ReportKinds
    <3> QED
      BY <1>1, <1>2, <1>5, <2>1, <3>1, <3>2, OpeningKeeps
  <2>2. CASE launched[q] # i
    BY <1>2, <1>5, <2>2, QuietKeeps DEF HandleConnected, i, q
  <2> QED
    BY <2>1, <2>2
<1>6. CASE listening /\ HandleInput
  <2>1. CASE active[q] = i
    <3>1. active' = active /\ Emit(<<Event("Input", i)>>)
      BY <1>6, <2>1 DEF HandleInput, i, q
    <3>2. /\ Event("Input", i) \in InFlight /\ Event("Input", i).kind = "Input"
          /\ Event("Input", i).worker_id = i /\ Event("Input", i).path_key = q
      BY <1>1, EventIs DEF ReportKinds
    <3> QED
      BY <1>1, <1>2, <1>6, <2>1, <3>1, <3>2, InputKeeps
  <2>2. CASE active[q] # i
    <3>1. active' = active /\ manager_tx' = manager_tx
      BY <1>3, <1>6, <2>2 DEF HandleInput, Emit, i, q
    <3> QED
      BY <1>2, <3>1, QuietKeeps
  <2> QED
    BY <2>1, <2>2
<1>7. ASSUME NEW t, Emit(t), active' = Forget(active, {i}),
             \/ t \in {<<>>, <<Event("Failed", i)>>} /\ active[q] # i
             \/ /\ t \in {<<Event("Disconnected", i)>>,
                          <<Event("Disconnected", i), Event("Failed", i)>>}
                /\ active[q] = i
      PROVE  EventsHold'
  <2> DEFINE gone == {p \in Paths : active[p] = i}
  <2>1. Farewell(gone, t)
    BY <1>1, <1>7, EndTold
  <2>2. \A p \in Paths : active'[p] = IF p \in gone THEN None ELSE active[p]
    BY <1>7 DEF Forget
  <2> HIDE DEF gone
  <2> QED
    BY <1>2, <1>7, <2>1, <2>2, FarewellKeeps
<1>8. CASE HandleDisconnected
  <2> DEFINE t == IF active[q] = i THEN <<Event("Disconnected", i)>> ELSE <<>>
  <2>1. active' = Forget(active, {i}) /\ Emit(t)
    BY <1>8 DEF HandleDisconnected, i, q
  <2>2. \/ t \in {<<>>, <<Event("Failed", i)>>} /\ active[q] # i
        \/ t \in {<<Event("Disconnected", i)>>,
                  <<Event("Disconnected", i), Event("Failed", i)>>} /\ active[q] = i
    OBVIOUS
  <2> HIDE DEF t
  <2> QED
    BY <1>7, <2>1, <2>2
<1>9. CASE HandleFailed
  <2> DEFINE t == FailedEvents(i)
  <2>1. active' = Forget(active, {i}) /\ Emit(t)
    BY <1>9 DEF HandleFailed, i
  <2>2. \/ t \in {<<>>, <<Event("Failed", i)>>} /\ active[q] # i
        \/ t \in {<<Event("Disconnected", i)>>,
                  <<Event("Disconnected", i), Event("Failed", i)>>} /\ active[q] = i
    BY <1>1 DEF FailedEvents
  <2> HIDE DEF t
  <2> QED
    BY <1>7, <2>1, <2>2
<1> QED
  BY <1>4, <1>5, <1>6, <1>8, <1>9 DEF HandleWorkerReport

-----------------------------------------------------------------------------
(* What a reconciliation does and tells. *)

\* The workers found panicked, and those whose panel left the bus.
Reaped == {i \in owned : thread[i] \in {"finished", "panicked"}}
Crashed == {i \in Reaped : thread[i] = "panicked"}
GoneActive == {Forget(active, Crashed)[p] : p \in Paths \ snapshot} \ {None}

\* The losses of the one and of the other.
CrashEvents == UNION {ToSet(FailedEvents(i)) : i \in Crashed}
GoneEvents == {Event("Disconnected", i) : i \in GoneActive}

\* A worker keeps its place in the tables unless it crashed or its panel left; who is
\* launched anew works, at a path that was enumerated.
LEMMA ReconcileDoes ==
    ASSUME IInv, Reconcile
    PROVE  /\ phase = "reconcile" /\ phase' = "select" /\ snapshot' = {}
           /\ UNCHANGED <<plugged, worker_rx, shutdown, listening>>
           /\ TellGone(Crashed, GoneActive)
           /\ owned \ Reaped \subseteq owned'
           /\ \A p \in Paths : active'[p] = IF active[p] \in Crashed \cup GoneActive
                                            THEN None ELSE active[p]
           /\ \A p \in Paths :
                 \/ launched'[p] = None
                 \/ launched'[p] = launched[p] /\ launched[p] \notin Crashed
                 \/ /\ launched'[p] \in Workers
                    /\ thread'[launched'[p]] = "starting"
           /\ \A p \in Paths \ snapshot : active'[p] = None /\ launched'[p] = None
           /\ \A i \in Workers : thread[i] # "unborn" =>
                 thread'[i] = thread[i] /\ path_key'[i] = path_key[i]
<1> DEFINE active1 == Forget(active, Crashed)
           launched1 == WithoutLaunched(Crashed)
           gone == Paths \ snapshot
           gone_launched == {launched1[p] : p \in gone} \ {None}
           active2 == Forget(active1, GoneActive)
           launched2 == Forget(launched1, gone_launched)
           fresh == SetToSeq(Unserved(active2, launched2, owned \ Reaped))
           Id(k) == next_worker_id + k
           new == {Id(k) : k \in DOMAIN fresh}
<1>1. /\ phase = "reconcile" /\ phase' = "select" /\ snapshot' = {}
      /\ UNCHANGED <<plugged, worker_rx, shutdown, listening>>
      /\ next_worker_id + Len(fresh) <= MaxWorkers
      /\ active' = active2
      /\ launched' = [p \in Paths |->
            IF \E k \in DOMAIN fresh : fresh[k] = p
            THEN Id(CHOOSE k \in DOMAIN fresh : fresh[k] = p)
            ELSE launched2[p]]
      /\ owned' = (owned \ Reaped) \cup new
      /\ path_key' = [i \in Workers |->
            IF i \in new THEN fresh[i - next_worker_id] ELSE path_key[i]]
      /\ thread' = [i \in Workers |-> IF i \in new THEN "starting" ELSE thread[i]]
      /\ TellGone(Crashed, GoneActive)
  BY DEF Reconcile, environment, Reaped, Crashed, GoneActive
<1>2. active \in [Paths -> 0..MaxWorkers] /\ launched \in [Paths -> 0..MaxWorkers]
      /\ next_worker_id \in Nat /\ MaxWorkers \in Nat /\ snapshot \subseteq Paths
  BY SupervisorAssumption DEF IInv, Typed
<1>3. ASSUME NEW p \in Paths
      PROVE  /\ active1[p] = IF active[p] \in Crashed THEN None ELSE active[p]
             /\ active2[p] = IF active1[p] \in GoneActive THEN None ELSE active1[p]
  BY DEF Forget
<1>4. ASSUME NEW p \in Paths
      PROVE  /\ launched1[p] = IF active[p] = None /\ launched[p] \in Crashed
                               THEN None ELSE launched[p]
             /\ launched2[p] = IF launched1[p] \in gone_launched
                               THEN None ELSE launched1[p]
  BY DEF Forget, WithoutLaunched
<1>5. \A p \in gone : active1[p] # None => active1[p] \in GoneActive
  BY DEF GoneActive
<1>6. \A p \in gone : launched1[p] # None => launched1[p] \in gone_launched
  OBVIOUS
<1>7. /\ DOMAIN fresh = 1..Len(fresh) /\ Len(fresh) \in Nat
      /\ \A k \in 1..Len(fresh) : fresh[k] \in snapshot
  <2> DEFINE U == Unserved(active2, launched2, owned \ Reaped)
  <2>1. U \subseteq snapshot /\ IsFiniteSet(U)
    BY <1>2, SupervisorAssumption, FS_Subset DEF Unserved
  <2> HIDE DEF U
  <2>2. fresh = SetToSeq(U)
    BY DEF U
  <2> HIDE DEF fresh
  <2> QED
    BY <2>1, <2>2, Listed
<1> HIDE DEF active1, active2, launched1, launched2, fresh, gone_launched
<1>8. \A p \in Paths : active'[p] = IF active[p] \in Crashed \cup GoneActive
                                    THEN None ELSE active[p]
  <2>1. None \notin GoneActive
    BY DEF GoneActive
  <2>2. \A p \in Paths : active[p] \in Crashed => active1[p] = None /\ active2[p] = None
    BY <1>3, <2>1
  <2> QED
    BY <1>1, <1>3, <2>2
<1>9. ASSUME NEW p \in Paths
      PROVE  \/ /\ launched'[p] \in new /\ launched'[p] \in Workers
                /\ p \in snapshot
             \/ launched'[p] = launched2[p]
  <2>1. CASE \E k \in DOMAIN fresh : fresh[k] = p
    <3> DEFINE k == CHOOSE k \in DOMAIN fresh : fresh[k] = p
    <3>1. k \in DOMAIN fresh /\ fresh[k] = p
      BY <2>1
    <3> HIDE DEF k
    <3>2. launched'[p] = Id(k)
      BY <1>1, <2>1 DEF k
    <3>3. Id(k) \in new /\ Id(k) \in Workers
      BY <1>1, <1>2, <1>7, <3>1 DEF Workers
    <3> QED
      BY <1>7, <3>1, <3>2, <3>3
  <2> QED
    BY <1>1, <2>1
<1>10. \A p \in Paths : launched[p] # None => active[p] = None
  BY DEF IInv, Tables
<1>11. ASSUME NEW p \in Paths
       PROVE  \/ launched2[p] = None
              \/ launched2[p] = launched[p] /\ launched[p] \notin Crashed
  BY <1>4, <1>10, SupervisorAssumption
<1>12. \A i \in Workers : thread[i] # "unborn" =>
          thread'[i] = thread[i] /\ path_key'[i] = path_key[i]
  <2> SUFFICES ASSUME NEW i \in Workers, thread[i] # "unborn", i \in new
               PROVE  FALSE
    BY <1>1
  <2>1. i > next_worker_id
    BY <1>2, <1>7
  <2> QED
    BY <2>1 DEF IInv, Numbered
<1>13. \A p \in Paths :
          \/ launched'[p] = None
          \/ launched'[p] = launched[p] /\ launched[p] \notin Crashed
          \/ launched'[p] \in Workers /\ thread'[launched'[p]] = "starting"
  BY <1>1, <1>9, <1>11
<1>14. \A p \in gone : active'[p] = None /\ launched'[p] = None
  <2> SUFFICES ASSUME NEW p \in gone
               PROVE  active'[p] = None /\ launched'[p] = None
    OBVIOUS
  <2>1. active2[p] = None /\ launched2[p] = None
    BY <1>3, <1>4, <1>5, <1>6
  <2> QED
    BY <1>1, <1>9, <2>1
<1> QED
  BY <1>1, <1>8, <1>12, <1>13, <1>14

\* The elements of a finite set, told in any order: all of them, and each once.
LEMMA ToldAll ==
    ASSUME NEW S, IsFiniteSet(S), NEW s \in SetToSeqs(S)
    PROVE  /\ s \in Seq(S) /\ Len(s) \in Nat
           /\ \A k \in 1..Len(s) : s[k] \in S
           /\ \A j, k \in 1..Len(s) : s[j] = s[k] => j = k
           /\ \A x \in S : \E k \in 1..Len(s) : s[k] = x
<1> DEFINE n == Cardinality(S)
           D == 1..n
<1>1. n \in Nat
  BY FS_CardinalityType
<1>2. s \in [D -> S] /\ \A i, j \in D : i # j => s[i] # s[j]
  BY DEF SetToSeqs
<1>3. IsFiniteSet(D) /\ Cardinality(D) = n
  <2>1. 1 \in Int /\ n \in Int /\ (IF 1 > n THEN 0 ELSE n - 1 + 1) = n
    BY <1>1
  <2> HIDE DEF n
  <2> QED
    BY <2>1, FS_Interval
<1> HIDE DEF n
<1>4. s \in Seq(S) /\ Len(s) = n
  BY <1>1, <1>2
<1> HIDE DEF D
<1>5. s \in Injection(D, S)
  BY <1>2 DEF Injection, IsInjective
<1>6. s \in Surjection(D, S)
  BY <1>3, <1>5, FS_Injection DEF n
<1>7. \A x \in S : \E k \in D : s[k] = x
  BY <1>6 DEF Surjection
<1> QED
  BY <1>1, <1>2, <1>4, <1>7 DEF D

\* There are finitely many events of the workers.
LEMMA EventsFinite ==
    ASSUME NEW E, \A e \in E : \E i \in Workers : e \in {Event("Disconnected", i),
                                                         Event("Failed", i)}
    PROVE  IsFiniteSet(E)
<1>1. IsFiniteSet(Workers)
  BY FS_Interval, SupervisorAssumption DEF Workers
<1>2. ASSUME NEW kind
      PROVE  IsFiniteSet({Event(kind, i) : i \in Workers})
  <2> DEFINE f == [i \in Workers |-> Event(kind, i)]
             T == {Event(kind, i) : i \in Workers}
  <2>1. f \in Surjection(Workers, T)
    BY DEF Surjection
  <2> HIDE DEF f, T
  <2>2. IsFiniteSet(T)
    BY <1>1, <2>1, FS_Surjection
  <2> QED
    BY <2>2 DEF T
<1> DEFINE A == {Event("Disconnected", i) : i \in Workers}
           B == {Event("Failed", i) : i \in Workers}
<1>3. E \in SUBSET (A \cup B)
  OBVIOUS
<1>4. IsFiniteSet(A) /\ IsFiniteSet(B)
  BY <1>2
<1> HIDE DEF A, B
<1>5. IsFiniteSet(A \cup B)
  BY <1>4, FS_Union
<1> QED
  BY <1>3, <1>5, FS_Subset

\* The workers concerned are of the tables' paths, and crashed or gone, never both.
LEMMA GoneWorkers ==
    ASSUME RInv
    PROVE  /\ Crashed \subseteq Workers /\ GoneActive \subseteq Workers
           /\ Crashed \cap GoneActive = {}
           /\ \A i \in Crashed \cup GoneActive : thread[i] # "unborn"
           /\ \A i \in GoneActive : active[path_key[i]] = i
<1>1. /\ active \in [Paths -> 0..MaxWorkers] /\ owned \subseteq Workers
      /\ \A i \in 0..MaxWorkers : i # None <=> i \in Workers
  BY EventTypes DEF RInv, IInv, Typed
<1>2. Crashed \subseteq Workers
  BY <1>1 DEF Crashed, Reaped
<1>3. ASSUME NEW i \in GoneActive
      PROVE  i \in Workers /\ i \notin Crashed /\ thread[i] # "unborn"
             /\ active[path_key[i]] = i
  <2>1. PICK p \in Paths : i = Forget(active, Crashed)[p] /\ i # None
    BY DEF GoneActive
  <2>2. i = active[p] /\ i \notin Crashed
    BY <2>1 DEF Forget
  <2> QED
    BY <1>1, <2>1, <2>2 DEF RInv, IInv, Tables
<1> QED
  BY <1>2, <1>3 DEF Crashed

\* The events of a reconciliation.
LEMMA CrashEventsAre ==
    ASSUME RInv
    PROVE  /\ \A e \in CrashEvents : \E i \in Crashed :
                 \/ e = Event("Failed", i)
                 \/ e = Event("Disconnected", i) /\ active[path_key[i]] = i
           /\ \A i \in Crashed : active[path_key[i]] = i =>
                 Event("Disconnected", i) \in CrashEvents
<1>1. ASSUME NEW e \in CrashEvents
      PROVE  \E i \in Crashed :
                 \/ e = Event("Failed", i)
                 \/ e = Event("Disconnected", i) /\ active[path_key[i]] = i
  <2>1. PICK i \in Crashed : e \in ToSet(FailedEvents(i))
    BY DEF CrashEvents
  <2>2. PICK k \in DOMAIN FailedEvents(i) : e = FailedEvents(i)[k]
    BY <2>1 DEF ToSet
  <2>3. CASE active[path_key[i]] = i
    <3>1. FailedEvents(i) = <<Event("Disconnected", i), Event("Failed", i)>>
      BY <2>3 DEF FailedEvents
    <3> QED
      BY <2>2, <2>3, <3>1
  <2>4. CASE active[path_key[i]] # i
    <3>1. FailedEvents(i) = <<Event("Failed", i)>> \/ FailedEvents(i) = <<>>
      BY <2>4 DEF FailedEvents
    <3> QED
      BY <2>2, <3>1
  <2> QED
    BY <2>3, <2>4
<1>2. ASSUME NEW i \in Crashed, active[path_key[i]] = i
      PROVE  Event("Disconnected", i) \in CrashEvents
  <2>1. FailedEvents(i) = <<Event("Disconnected", i), Event("Failed", i)>>
    BY <1>2 DEF FailedEvents
  <2>2. Event("Disconnected", i) \in ToSet(FailedEvents(i))
    <3>1. 1 \in DOMAIN FailedEvents(i) /\ FailedEvents(i)[1] = Event("Disconnected", i)
      BY <2>1
    <3> QED
      BY <3>1 DEF ToSet
  <2> QED
    BY <2>2 DEF CrashEvents
<1> QED
  BY <1>1, <1>2

LEMMA ReconcileTells == RInv /\ Reconcile /\ UNCHANGED mgrvars => EventsHold'
<1> SUFFICES ASSUME RInv, Reconcile, UNCHANGED mgrvars
             PROVE  EventsHold'
  OBVIOUS
<1> DEFINE gone == {p \in Paths : active[p] \in Crashed \cup GoneActive}
<1>1. /\ phase # "done" /\ UNCHANGED <<shutdown, listening>>
      /\ TellGone(Crashed, GoneActive)
      /\ \A p \in Paths : active'[p] = IF p \in gone THEN None ELSE active[p]
      /\ Steady
  BY ReconcileDoes DEF RInv, Steady
<1>2. PICK e1 \in Tellings(CrashEvents), e2 \in Tellings(GoneEvents) : Emit(e1 \o e2)
  BY <1>1 DEF TellGone, CrashEvents, GoneEvents
<1>3. IsFiniteSet(CrashEvents) /\ IsFiniteSet(GoneEvents)
  BY CrashEventsAre, GoneWorkers, EventsFinite DEF GoneEvents
<1>4. /\ e1 \in SetToSeqs(CrashEvents) /\ e2 \in SetToSeqs(GoneEvents)
  BY <1>2 DEF Tellings
<1>5. ASSUME NEW e \in CrashEvents
      PROVE  /\ e \in InFlight /\ e.kind \in Final /\ e.worker_id \in Crashed
             /\ e.path_key = path_key[e.worker_id] /\ thread[e.worker_id] # "unborn"
             /\ e.kind = "Disconnected" =>
                    e = Event("Disconnected", e.worker_id)
                    /\ active[e.path_key] = e.worker_id
  <2>1. PICK i \in Crashed : \/ e = Event("Failed", i)
                             \/ e = Event("Disconnected", i) /\ active[path_key[i]] = i
    BY CrashEventsAre
  <2> QED
    BY <2>1, GoneWorkers, EventIs DEF ReportKinds, Final
<1>6. ASSUME NEW e \in GoneEvents
      PROVE  /\ e \in InFlight /\ e.kind = "Disconnected" /\ e.worker_id \in GoneActive
             /\ e.path_key = path_key[e.worker_id] /\ thread[e.worker_id] # "unborn"
             /\ e = Event("Disconnected", e.worker_id)
             /\ active[e.path_key] = e.worker_id
  <2>1. PICK i \in GoneActive : e = Event("Disconnected", i)
    BY DEF GoneEvents
  <2> QED
    BY <2>1, GoneWorkers, EventIs DEF ReportKinds
<1> DEFINE t == e1 \o e2
           a == Len(e1)
<1>7. /\ e1 \in Seq(CrashEvents) /\ a \in Nat
      /\ \A k \in 1..a : e1[k] \in CrashEvents
      /\ \A j, k \in 1..a : e1[j] = e1[k] => j = k
      /\ \A x \in CrashEvents : \E k \in 1..a : e1[k] = x
  BY <1>3, <1>4, ToldAll
<1>8. /\ e2 \in Seq(GoneEvents) /\ Len(e2) \in Nat
      /\ \A k \in 1..Len(e2) : e2[k] \in GoneEvents
      /\ \A j, k \in 1..Len(e2) : e2[j] = e2[k] => j = k
      /\ \A x \in GoneEvents : \E k \in 1..Len(e2) : e2[k] = x
  BY <1>3, <1>4, ToldAll
<1>9. /\ t \in Seq(InFlight) /\ Len(t) = a + Len(e2)
      /\ \A k \in 1..a : t[k] = e1[k]
      /\ \A k \in 1..Len(e2) : t[a + k] = e2[k]
      /\ \A k \in 1..Len(t) :
            k \notin 1..a => k - a \in 1..Len(e2) /\ t[k] = e2[k - a]
  <2>1. e1 \in Seq(InFlight) /\ e2 \in Seq(InFlight)
    BY <1>5, <1>6, <1>7, <1>8
  <2> QED
    BY <2>1, <1>7, <1>8
<1> HIDE DEF t, a
<1>10. ASSUME NEW k \in 1..Len(t)
       PROVE  \/ k \in 1..a /\ t[k] = e1[k] /\ t[k] \in CrashEvents
              \/ k \notin 1..a /\ k - a \in 1..Len(e2) /\ t[k] = e2[k - a]
                 /\ t[k] \in GoneEvents
  BY <1>7, <1>8, <1>9
<1>11. \A p \in gone : active[p] # None /\ \E k \in 1..Len(t) :
          t[k].kind = "Disconnected" /\ t[k].path_key = p /\ t[k].worker_id = active[p]
  <2> SUFFICES ASSUME NEW p \in gone
               PROVE  active[p] # None /\ \E k \in 1..Len(t) :
                          t[k].kind = "Disconnected" /\ t[k].path_key = p
                          /\ t[k].worker_id = active[p]
    OBVIOUS
  <2> DEFINE i == active[p]
             e == Event("Disconnected", i)
  <2>1. i \in Workers /\ i # None /\ path_key[i] = p /\ i \in Crashed \cup GoneActive
    BY GoneWorkers, EventTypes DEF RInv, IInv, Tables
  <2>2. e.kind = "Disconnected" /\ e.path_key = p /\ e.worker_id = i
    BY <2>1, EventIs DEF ReportKinds
  <2>3. e \in CrashEvents \/ e \in GoneEvents
    BY <2>1, CrashEventsAre DEF GoneEvents
  <2> HIDE DEF e
  <2>4. CASE e \in CrashEvents
    <3>1. PICK k \in 1..a : e1[k] = e
      BY <1>7, <2>4
    <3>2. k \in 1..Len(t) /\ t[k] = e
      BY <1>7, <1>8, <1>9, <3>1
    <3> QED
      BY <2>1, <2>2, <3>2
  <2>5. CASE e \in GoneEvents
    <3>1. PICK k \in 1..Len(e2) : e2[k] = e
      BY <1>8, <2>5
    <3>2. a + k \in 1..Len(t)
      BY <1>7, <1>8, <1>9
    <3>3. t[a + k] = e
      BY <1>9, <3>1
    <3> QED
      BY <2>1, <2>2, <3>2, <3>3
  <2> QED
    BY <2>3, <2>4, <2>5
<1>12. ASSUME NEW k \in 1..Len(t)
       PROVE  /\ t[k].kind \in Final
              /\ t[k].path_key = path_key[t[k].worker_id]
              /\ thread[t[k].worker_id] # "unborn"
              /\ t[k].kind = "Disconnected" =>
                     t[k].path_key \in gone /\ t[k].worker_id = active[t[k].path_key]
  <2>1. path_key[t[k].worker_id] \in Paths
    BY <1>5, <1>6, <1>10, EventTypes DEF InFlight
  <2> QED
    BY <1>5, <1>6, <1>10, <2>1 DEF Final
<1>13. ASSUME NEW j \in 1..Len(t), NEW k \in 1..Len(t),
              t[j].kind = "Disconnected", t[k].kind = "Disconnected",
              t[j].path_key = t[k].path_key
       PROVE  j = k
  <2>1. t[j].worker_id = t[k].worker_id
    BY <1>12, <1>13
  <2>2. t[j] = t[k] /\ (t[j] \in CrashEvents <=> t[k] \in CrashEvents)
    BY <1>5, <1>6, <1>10, <1>13, <2>1
  <2>3. ~(t[j] \in CrashEvents /\ t[k] \in GoneEvents)
    BY <1>5, <1>6, <2>1, GoneWorkers
  <2>4. ~(t[k] \in CrashEvents /\ t[j] \in GoneEvents)
    BY <1>5, <1>6, <2>1, GoneWorkers
  <2>5. CASE j \in 1..a /\ k \in 1..a
    BY <1>7, <1>9, <2>2, <2>5
  <2>6. CASE j \notin 1..a /\ k \notin 1..a
    <3> DEFINE c == j - a
               b == k - a
    <3>1. c \in 1..Len(e2) /\ b \in 1..Len(e2) /\ e2[c] = e2[b]
      BY <1>9, <2>2, <2>6
    <3>2. j = a + c /\ k = a + b
      BY <1>7
    <3> HIDE DEF b, c
    <3>3. c = b
      BY <1>8, <3>1
    <3> QED
      BY <3>2, <3>3
  <2> QED
    BY <1>10, <2>3, <2>4, <2>5, <2>6
<1>14. Farewell(gone, t)
  BY <1>9, <1>11, <1>12, <1>13 DEF Farewell
<1>15. Emit(t)
  BY <1>2 DEF t
<1> HIDE DEF gone
<1> QED
  BY <1>1, <1>14, <1>15, FarewellKeeps

-----------------------------------------------------------------------------
(* Every step keeps what the events say. *)

\* A worker thread moves on: nothing the supervisor or the manager holds changes but the
\* reports on their way.
LEMMA ThreadTellsNothing ==
    ASSUME RInv, NEW i \in Workers, UNCHANGED mgrvars,
           ThreadStep(i) \/ SendInput(i) \/ FailUsb(i) \/ Panic(i)
    PROVE  EventsHold'
<1>1. UNCHANGED <<path_key, registry, control>>
  BY DEF ThreadStep, SendInput, FailUsb, Panic, OpenDevice, OpenFails, Announce,
         ObserveStop, FailDead, Finish, ReportAnd
<1>2. \/ thread' = thread
      \/ Move(i, "opened") \/ Move(i, "serving") \/ Move(i, "reported")
      \/ Move(i, "finished") \/ Move(i, "panicked")
  BY DEF ThreadStep, SendInput, FailUsb, Panic, OpenDevice, OpenFails, Announce,
         ObserveStop, FailDead, Finish, ReportAnd
<1>3. thread \in [Workers -> ThreadStates]
  BY DEF RInv, IInv, Typed
<1>4. \A j \in Workers : thread[j] # "unborn" => thread'[j] # "unborn"
  BY <1>2, <1>3 DEF Move
<1> QED
  BY <1>1, <1>4, QuietKeeps DEF Steady, registry, control

LEMMA EventsStep == RInv /\ [Next]_vars => EventsHold'
<1> SUFFICES ASSUME RInv, [Next]_vars
             PROVE  EventsHold'
  OBVIOUS
<1>1. ASSUME UNCHANGED <<mgrvars, path_key, thread, registry, manager_tx, listening>>,
             phase' # "done" => phase # "done", shutdown => shutdown'
      PROVE  EventsHold'
  BY <1>1, QuietKeeps DEF Steady, registry
<1>2. ASSUME NEW p \in Paths, Plug(p) \/ Unplug(p), UNCHANGED mgrvars
      PROVE  EventsHold'
  BY <1>1, <1>2 DEF Plug, Unplug, threads, control
<1>3. ASSUME NEW i \in Workers, ThreadStep(i) \/ SendInput(i) \/ FailUsb(i) \/ Panic(i),
             UNCHANGED mgrvars
      PROVE  EventsHold'
  BY <1>3, ThreadTellsNothing
<1>4. CASE HandleWorkerReport /\ UNCHANGED mgrvars
  BY <1>4, HandlingKeeps
<1>5. CASE Reconcile /\ UNCHANGED mgrvars
  BY <1>5, ReconcileTells
<1>6. CASE (Enumerate \/ EnumerateFails) /\ UNCHANGED mgrvars
  BY <1>1, <1>6 DEF Enumerate, EnumerateFails, threads
<1>7. CASE (Shutdown \/ ObserveShutdown \/ StopAll) /\ UNCHANGED mgrvars
  BY <1>1, <1>7 DEF Shutdown, ObserveShutdown, StopAll, threads
<1>8. CASE JoinAll /\ UNCHANGED mgrvars
  <2>1. /\ phase' = "done"
        /\ UNCHANGED <<path_key, thread, manager_tx, shutdown, listening, mgrvars>>
    BY <1>8 DEF JoinAll, threads
  <2>2. /\ Attentive' /\ Named' /\ Legal' /\ EventsTyped'
    BY <2>1, EventTypes DEF RInv, Attentive, AfterCall, Named, Legal, EventsTyped, mgrvars
  <2> QED
    BY <2>1, <2>2 DEF EventsHold, Agree, Followed
<1>9. CASE ReceiveEvent
  BY <1>9, ReceiveKeeps
<1>10. CASE CoreAnswers
  BY <1>10, AnswerKeeps
<1>11. CASE EndLoop
  BY <1>11, EndKeeps
<1>12. CASE UNCHANGED vars
  BY <1>1, <1>12 DEF vars, svars, threads, control
<1> QED
  BY <1>2, <1>3, <1>4, <1>5, <1>6, <1>7, <1>8, <1>9, <1>10, <1>11, <1>12
     DEF Next, SNext, LoopStep

-----------------------------------------------------------------------------
(* Panels are different panels. *)

LEMMA Fewer ==
    ASSUME RInv, plugged' \subseteq plugged, snapshot' \in {snapshot, {}, plugged},
           Taken' \subseteq Taken
    PROVE  Separate'
BY DEF RInv, Separate, Distinct

LEMMA SameTables ==
    ASSUME UNCHANGED <<launched, active>>
    PROVE  Taken' = Taken
BY DEF Taken

LEMMA SeparateStep == RInv /\ [Next]_vars => Separate'
<1> SUFFICES ASSUME RInv, [Next]_vars
             PROVE  Separate'
  OBVIOUS
<1>0. plugged \subseteq Paths
  BY DEF RInv, IInv, Typed
<1>1. ASSUME UNCHANGED <<launched, active>>, plugged' \subseteq plugged,
             snapshot' \in {snapshot, {}, plugged}
      PROVE  Separate'
  BY <1>1, Fewer, SameTables
<1>2. ASSUME NEW p \in Paths, Plug(p)
      PROVE  Separate'
  <2>1. /\ plugged' = plugged \cup {p} /\ \A q \in plugged : ~Exclusive(p, q)
        /\ UNCHANGED <<launched, active, snapshot>>
    BY <1>2 DEF Plug, registry, control
  <2>2. Distinct(plugged')
    BY <1>0, <2>1, ManagerAssumption DEF RInv, Separate, Distinct
  <2>3. Distinct(snapshot') /\ Distinct(Taken')
    BY <2>1, SameTables DEF RInv, Separate
  <2> QED
    BY <2>2, <2>3 DEF Separate, Distinct
<1>3. ASSUME NEW p \in Paths, Unplug(p)
      PROVE  Separate'
  BY <1>1, <1>3 DEF Unplug, registry, control
<1>4. ASSUME NEW i \in Workers, ThreadStep(i) \/ SendInput(i) \/ FailUsb(i) \/ Panic(i)
      PROVE  Separate'
  <2>1. UNCHANGED <<registry, snapshot, plugged>>
    BY <1>4 DEF ThreadStep, SendInput, FailUsb, Panic, OpenDevice, OpenFails, Announce,
                ObserveStop, FailDead, Finish, environment, control
  <2> QED
    BY <1>1, <2>1 DEF registry
<1>5. CASE HandleWorkerReport
  <2> DEFINE i == Next1.worker_id
             q == Next1.path_key
  <2>1. /\ plugged' = plugged /\ snapshot' = snapshot
    BY <1>5 DEF HandleWorkerReport, environment
  <2>2. q \in Paths /\ i # None
    <3>1. Next1 \in InFlight
      BY <1>5, ReportInHand DEF RInv, HandleWorkerReport
    <3> QED
      BY <3>1, EventTypes DEF InFlight
  <2>3. active \in [Paths -> 0..MaxWorkers] /\ launched \in [Paths -> 0..MaxWorkers]
    BY EventTypes
  <2>4. \A p \in Paths : launched'[p] # None \/ active'[p] # None =>
                            launched[p] # None \/ active[p] # None
    <3>1. CASE HandleConnected
      BY <2>2, <2>3, <3>1 DEF HandleConnected
    <3>2. CASE HandleInput
      BY <3>2 DEF HandleInput
    <3>3. CASE HandleDisconnected
      BY <3>3 DEF HandleDisconnected, Forget
    <3>4. CASE HandleFailed
      BY <3>4 DEF HandleFailed, Forget, WithoutLaunched
    <3> QED
      BY <1>5, <3>1, <3>2, <3>3, <3>4 DEF HandleWorkerReport
  <2>5. Taken' \subseteq Taken
    BY <2>4 DEF Taken
  <2> QED
    BY <2>1, <2>5, Fewer
<1>6. CASE Reconcile
  <2>1. /\ plugged' = plugged /\ snapshot' = {}
        /\ \A p \in Paths \ snapshot : active'[p] = None /\ launched'[p] = None
    BY <1>6, ReconcileDoes DEF RInv
  <2>2. Taken' \subseteq snapshot
    BY <2>1 DEF Taken
  <2> QED
    BY <2>1, <2>2 DEF RInv, Separate, Distinct
<1>7. CASE JoinAll
  <2>1. Taken' = {} /\ plugged' = plugged /\ snapshot' = snapshot
    BY <1>7 DEF JoinAll, Taken, environment
  <2> QED
    BY <2>1, Fewer
<1>8. CASE Enumerate \/ EnumerateFails
  BY <1>1, <1>8 DEF Enumerate, EnumerateFails, environment, registry
<1>9. CASE Shutdown \/ ObserveShutdown \/ StopAll
  BY <1>1, <1>9 DEF Shutdown, ObserveShutdown, StopAll, environment, registry
<1>10. CASE LoopStep \/ EndLoop
  BY <1>1, <1>10 DEF LoopStep, ReceiveEvent, CoreAnswers, EndLoop, svars, environment,
                     registry, control
<1>11. CASE UNCHANGED vars
  BY <1>1, <1>11 DEF vars, svars, environment, registry, control
<1> QED
  BY <1>2, <1>3, <1>4, <1>5, <1>6, <1>7, <1>8, <1>9, <1>10, <1>11 DEF Next, SNext

-----------------------------------------------------------------------------
(* A worker that ended is explained until the tables are rid of it. *)

\* Nothing but threads and reports of one worker change; if it stops working it has left
\* a final report, or panicked.
LEMMA OneMoves ==
    ASSUME RInv, NEW i \in Workers, NEW state, Move(i, state),
           UNCHANGED <<launched, active, owned, phase>>,
           \/ UNCHANGED worker_rx
           \/ \E kind \in ReportKinds : Send(Report(kind, i)),
           \/ state \in {"starting", "opened", "serving"}
           \/ thread[i] = "reported"
           \/ state = "panicked" /\ i \in owned
           \/ \E kind \in Final : Send(Report(kind, i))
    PROVE  Watched'
<1>1. worker_rx \in Seq(InFlight) /\ Len(worker_rx) \in Nat
      /\ thread \in [Workers -> ThreadStates]
      /\ active \in [Paths -> 0..MaxWorkers] /\ launched \in [Paths -> 0..MaxWorkers]
      /\ \A j \in 0..MaxWorkers : j # None <=> j \in Workers
  BY EventTypes DEF RInv, IInv, Typed
<1>2. thread'[i] = state /\ \A j \in Workers : j # i => thread'[j] = thread[j]
  BY <1>1 DEF Move
<1>3. /\ Len(worker_rx') \in Nat /\ Len(worker_rx') >= Len(worker_rx)
      /\ \A k \in 1..Len(worker_rx) : worker_rx'[k] = worker_rx[k]
  <2>1. CASE UNCHANGED worker_rx
    BY <1>1, <2>1
  <2>2. ASSUME NEW kind \in ReportKinds, Send(Report(kind, i))
        PROVE  /\ Len(worker_rx') = Len(worker_rx) + 1
               /\ \A k \in 1..Len(worker_rx) : worker_rx'[k] = worker_rx[k]
    <3> DEFINE report == Report(kind, i)
    <3>1. report \in InFlight
      BY EventTypes DEF Report, InFlight
    <3> HIDE DEF report
    <3>2. worker_rx' = Append(worker_rx, report)
      BY <2>2 DEF Send, report
    <3> QED
      BY <1>1, <3>1, <3>2
  <2> QED
    BY <1>1, <2>1, <2>2
<1>4. ASSUME NEW kind \in Final, Send(Report(kind, i))
      PROVE  \E k \in 1..Len(worker_rx') :
                worker_rx'[k].worker_id = i /\ worker_rx'[k].kind \in Final
  <2> DEFINE k == Len(worker_rx) + 1
             report == Report(kind, i)
  <2>1. report.worker_id = i /\ report.kind = kind
    BY DEF Report
  <2> HIDE DEF report
  <2>2. k \in 1..Len(worker_rx') /\ worker_rx'[k] = report
    BY <1>1, <1>4 DEF Send, report
  <2> QED
    BY <1>4, <2>1, <2>2
<1>5. ASSUME NEW j \in Workers, \E k \in 1..Len(worker_rx) :
                 worker_rx[k].worker_id = j /\ worker_rx[k].kind \in Final
      PROVE  Explained(j)'
  BY <1>1, <1>3, <1>5 DEF Explained
<1>6. ASSUME NEW j \in Workers, Explained(j)
      PROVE  Explained(j)'
  <2>1. CASE j # i
    BY <1>2, <1>5, <1>6, <2>1 DEF Explained, Alive
  <2>2. CASE j = i
    <3>1. CASE state \in {"starting", "opened", "serving"}
      BY <1>2, <2>2, <3>1 DEF Explained, Alive
    <3>2. CASE thread[i] = "reported"
      BY <1>5, <1>6, <2>2, <3>2 DEF Explained, Alive
    <3>3. CASE state = "panicked" /\ i \in owned
      BY <1>2, <2>2, <3>3 DEF Explained
    <3>4. CASE \E kind \in Final : Send(Report(kind, i))
      BY <1>4, <2>2, <3>4 DEF Explained
    <3> QED
      BY <3>1, <3>2, <3>3, <3>4
  <2> QED
    BY <2>1, <2>2
<1>7. ASSUME phase # "done", NEW p \in Paths, NEW j, j = launched[p] \/ j = active[p], j # None
      PROVE  Explained(j)'
  <2>1. j \in Workers
    BY <1>1, <1>7
  <2>2. Explained(j)
    BY <1>7 DEF RInv, Watched
  <2> QED
    BY <1>6, <2>1, <2>2
<1>8. ASSUME phase # "done", NEW p \in Paths
      PROVE  /\ launched'[p] # None => Explained(launched[p])'
             /\ active'[p] # None => Explained(active[p])'
  BY <1>7, <1>8 DEF Explained, Alive
<1> QED
  BY <1>8 DEF Watched

LEMMA ThreadsWatched ==
    ASSUME RInv, NEW i \in Workers,
           ThreadStep(i) \/ SendInput(i) \/ FailUsb(i) \/ Panic(i)
    PROVE  Watched'
<1> USE DEF ReportAnd, Final, ReportKinds
<1>1. UNCHANGED <<launched, active, owned, phase>>
  BY DEF ThreadStep, SendInput, FailUsb, Panic, registry, control
<1>2. thread \in [Workers -> ThreadStates]
  BY DEF RInv, IInv, Typed
<1>3. CASE OpenDevice(i)
  BY <1>1, <1>3, OneMoves DEF OpenDevice
<1>4. CASE OpenFails(i)
  BY <1>1, <1>4, OneMoves DEF OpenFails
<1>5. CASE Announce(i)
  BY <1>1, <1>5, OneMoves DEF Announce
<1>6. CASE ObserveStop(i)
  BY <1>1, <1>6, OneMoves DEF ObserveStop
<1>7. CASE FailDead(i)
  BY <1>1, <1>7, OneMoves DEF FailDead
<1>8. CASE Finish(i)
  BY <1>1, <1>8, OneMoves DEF Finish
<1>9. CASE SendInput(i)
  <2>1. Move(i, "serving")
    BY <1>2, <1>9 DEF SendInput, Move
  <2> QED
    BY <1>1, <1>9, <2>1, OneMoves DEF SendInput
<1>10. CASE FailUsb(i)
  BY <1>1, <1>10, OneMoves DEF FailUsb
<1>11. CASE Panic(i)
  <2>1. i \in owned
    BY <1>11 DEF Panic, RInv, IInv, Owned, Busy
  <2> QED
    BY <1>1, <1>11, <2>1, OneMoves DEF Panic
<1> QED
  BY <1>3, <1>4, <1>5, <1>6, <1>7, <1>8, <1>9, <1>10, <1>11 DEF ThreadStep

\* A final report worked off takes its worker out of the tables.
LEMMA ReportWatched == RInv /\ HandleWorkerReport => Watched'
<1> SUFFICES ASSUME RInv, HandleWorkerReport
             PROVE  Watched'
  OBVIOUS
<1> DEFINE i == Next1.worker_id
           q == Next1.path_key
<1>1. /\ worker_rx # <<>> /\ worker_rx' = Tail(worker_rx) /\ phase # "done"
      /\ UNCHANGED <<thread, owned>>
  BY DEF HandleWorkerReport
<1>2. /\ Next1 \in InFlight /\ q = path_key[i]
      /\ Len(worker_rx') = Len(worker_rx) - 1
      /\ \A k \in 1..Len(worker_rx') :
            k + 1 \in 1..Len(worker_rx) /\ worker_rx'[k] = worker_rx[k + 1]
      /\ worker_rx \in Seq(InFlight) /\ Len(worker_rx) \in Nat /\ Next1 = worker_rx[1]
  BY <1>1, ReportInHand DEF RInv, IInv, Typed, Next1
<1>3. /\ q \in Paths /\ i \in Workers /\ i # None
      /\ active \in [Paths -> 0..MaxWorkers] /\ launched \in [Paths -> 0..MaxWorkers]
      /\ \A j \in 0..MaxWorkers : j # None <=> j \in Workers
  BY <1>2, EventTypes DEF InFlight
<1>4. \A p \in Paths : /\ launched[p] = i => p = q
                       /\ active[p] = i => p = q
                       /\ launched[p] # None => active[p] = None
  BY <1>2, <1>3 DEF RInv, IInv, Tables
<1> HIDE DEF i, q
<1>5. ASSUME NEW j \in Workers, Explained(j), Next1.kind \in Final => j # i
      PROVE  Explained(j)'
  <2>1. CASE Alive(j) \/ (thread[j] = "panicked" /\ j \in owned)
    BY <1>1, <2>1 DEF Explained, Alive
  <2>2. CASE \E k \in 1..Len(worker_rx) :
                worker_rx[k].worker_id = j /\ worker_rx[k].kind \in Final
    <3>1. PICK k \in 1..Len(worker_rx) :
                worker_rx[k].worker_id = j /\ worker_rx[k].kind \in Final
      BY <2>2
    <3>2. k # 1
      BY <1>2, <1>5, <3>1 DEF i
    <3> DEFINE l == k - 1
    <3>3. l \in 1..Len(worker_rx') /\ l + 1 = k
      BY <1>2, <3>2
    <3> HIDE DEF l
    <3>4. worker_rx'[l] = worker_rx[k]
      BY <1>2, <3>3
    <3> QED
      BY <3>1, <3>3, <3>4 DEF Explained
  <2> QED
    BY <1>5, <2>1, <2>2 DEF Explained
<1>6. ASSUME NEW p \in Paths
      PROVE  /\ launched'[p] # None => launched'[p] = launched[p]
                                       /\ (Next1.kind \in Final => launched[p] # i)
             /\ active'[p] # None => /\ active'[p] = active[p] \/ active'[p] = launched[p]
                                     /\ Next1.kind \in Final => active'[p] # i
  <2>1. CASE HandleConnected
    BY <1>3, <2>1 DEF HandleConnected, Final, i, q
  <2>2. CASE HandleInput
    BY <2>2 DEF HandleInput, Final
  <2>3. CASE HandleDisconnected
    <3>1. /\ active'[p] = IF active[p] = i THEN None ELSE active[p]
          /\ launched'[p] = IF active[q] = None /\ launched[p] = i THEN None ELSE launched[p]
      BY <2>3 DEF HandleDisconnected, Forget, i, q
    <3> QED
      BY <1>3, <1>4, <3>1
  <2>4. CASE HandleFailed
    <3>1. /\ active'[p] = IF active[p] = i THEN None ELSE active[p]
          /\ launched'[p] = IF active[p] = None /\ launched[p] = i THEN None ELSE launched[p]
      BY <2>4 DEF HandleFailed, Forget, WithoutLaunched, i
    <3> QED
      BY <1>3, <1>4, <3>1
  <2> QED
    BY <2>1, <2>2, <2>3, <2>4 DEF HandleWorkerReport
<1>7. ASSUME NEW p \in Paths, NEW j, j # None, j = launched[p] \/ j = active[p],
             Next1.kind \in Final => j # i
      PROVE  Explained(j)'
  <2>1. j \in Workers /\ Explained(j)
    BY <1>1, <1>3, <1>7 DEF RInv, Watched
  <2> QED
    BY <1>5, <1>7, <2>1
<1>8. ASSUME NEW p \in Paths, NEW j, j # None, j = launched'[p] \/ j = active'[p]
      PROVE  Explained(j)'
  BY <1>6, <1>7, <1>8
<1>9. ASSUME NEW p \in Paths
      PROVE  /\ launched'[p] # None => Explained(launched[p])'
             /\ active'[p] # None => Explained(active[p])'
  BY <1>8 DEF Explained, Alive
<1> QED
  BY <1>9 DEF Watched

LEMMA WatchedStep == RInv /\ [Next]_vars => Watched'
<1> SUFFICES ASSUME RInv, [Next]_vars
             PROVE  Watched'
  OBVIOUS
<1>1. ASSUME UNCHANGED <<thread, worker_rx, launched, active, owned>>,
             phase' # "done" => phase # "done"
      PROVE  Watched'
  BY <1>1 DEF RInv, Watched, Explained, Alive
<1>2. ASSUME NEW p \in Paths, Plug(p) \/ Unplug(p)
      PROVE  Watched'
  BY <1>1, <1>2 DEF Plug, Unplug, threads, registry, control
<1>3. ASSUME NEW i \in Workers, ThreadStep(i) \/ SendInput(i) \/ FailUsb(i) \/ Panic(i)
      PROVE  Watched'
  BY <1>3, ThreadsWatched
<1>4. CASE HandleWorkerReport
  BY <1>4, ReportWatched
<1>5. CASE Reconcile
  <2>1. /\ phase # "done" /\ worker_rx' = worker_rx /\ owned \ Reaped \subseteq owned'
        /\ \A p \in Paths : active'[p] = IF active[p] \in Crashed \cup GoneActive
                                         THEN None ELSE active[p]
        /\ \A p \in Paths :
              \/ launched'[p] = None
              \/ launched'[p] = launched[p] /\ launched[p] \notin Crashed
              \/ /\ launched'[p] \in Workers
                 /\ thread'[launched'[p]] = "starting"
        /\ \A i \in Workers : thread[i] # "unborn" => thread'[i] = thread[i]
    BY <1>5, ReconcileDoes DEF RInv
  <2>2. ASSUME NEW p \in Paths, NEW j, j # None, j = launched[p] \/ j = active[p],
               j \notin Crashed
        PROVE  Explained(j)'
    <3>1. j \in Workers /\ thread[j] # "unborn" /\ Explained(j)
      BY <2>1, <2>2, EventTypes DEF RInv, IInv, Tables, Watched
    <3>2. thread[j] = "panicked" /\ j \in owned => j \in Crashed
      BY DEF Crashed, Reaped
    <3> QED
      BY <2>1, <2>2, <3>1, <3>2 DEF Explained, Alive
  <2>3. ASSUME NEW p \in Paths
        PROVE  /\ launched'[p] # None => Explained(launched[p])'
               /\ active'[p] # None => Explained(active[p])'
    <3>1. CASE launched'[p] = launched[p] /\ launched[p] \notin Crashed
      BY <2>1, <2>2, <3>1 DEF Explained, Alive
    <3>2. CASE launched'[p] \in Workers /\ thread'[launched'[p]] = "starting"
      BY <2>1, <2>2, <3>2 DEF Explained, Alive
    <3>3. CASE launched'[p] = None
      BY <2>1, <2>2, <3>3 DEF Explained, Alive
    <3> QED
      BY <2>1, <3>1, <3>2, <3>3
  <2> QED
    BY <2>3 DEF Watched
<1>6. CASE JoinAll
  BY <1>6 DEF JoinAll, Watched
<1>7. CASE Enumerate \/ EnumerateFails
  BY <1>1, <1>7 DEF Enumerate, EnumerateFails, threads, registry
<1>8. CASE Shutdown \/ ObserveShutdown \/ StopAll
  BY <1>1, <1>8 DEF Shutdown, ObserveShutdown, StopAll, threads, registry
<1>9. CASE LoopStep \/ EndLoop
  BY <1>1, <1>9 DEF LoopStep, ReceiveEvent, CoreAnswers, EndLoop, svars, threads, registry,
                    control
<1>10. CASE UNCHANGED vars
  BY <1>1, <1>10 DEF vars, svars, threads, registry, control
<1> QED
  BY <1>2, <1>3, <1>4, <1>5, <1>6, <1>7, <1>8, <1>9, <1>10 DEF Next, SNext

-----------------------------------------------------------------------------
(* Types. *)

\* What IInv and EventsHold leave of the types.
Rest ==
    /\ faults \in 0..MaxFaults /\ inputs \in 0..MaxInputs
    /\ dead \subseteq Workers
    /\ phase \in {"select", "reconcile", "stop", "join", "done"}
    /\ shutdown \in BOOLEAN /\ listening \in BOOLEAN
    /\ command_map \in [Devices -> 0..MaxWorkers]
    /\ core_devices \subseteq Devices
    /\ LoopTyped

LEMMA TypesMakeUp == IInv /\ EventsTyped /\ Rest => TypeOK
<1> SUFFICES ASSUME IInv, EventsTyped, Rest
             PROVE  TypeOK
  OBVIOUS
<1>1. loop.at \in {"recv", "aborted"} \cup Calls
  BY DEF Rest, LoopTyped, Receiving, Calling
<1>2. STypeOK
  BY DEF IInv, Typed, EventsTyped, Rest, STypeOK, InFlight
<1> QED
  BY <1>1, <1>2 DEF TypeOK, Rest

\* The core is called about devices.
LEMMA CallIsKnown == RInv => AfterCall \subseteq Devices
<1> SUFFICES ASSUME RInv
             PROVE  AfterCall \subseteq Devices
  OBVIOUS
<1>1. core_devices \subseteq Devices /\ LoopTyped
  BY DEF RInv, TypeOK
<1>2. loop.at \in Calls => Identity(loop.event.path_key) \in Devices
  BY <1>1 DEF LoopTyped, Calls, Receiving, Calling, InFlight, Devices
<1> QED
  BY <1>1, <1>2 DEF AfterCall, Calls

LEMMA RestStep == RInv /\ [Next]_vars => Rest'
<1> SUFFICES ASSUME RInv, [Next]_vars
             PROVE  Rest'
  OBVIOUS
<1>0. Rest
  BY DEF RInv, TypeOK, STypeOK, Rest
<1> USE DEF Rest
<1>1. ASSUME mgrvars' = mgrvars, faults' \in 0..MaxFaults, inputs' \in 0..MaxInputs,
             dead' \subseteq Workers, listening' \in BOOLEAN, shutdown' \in BOOLEAN,
             phase' \in {"select", "reconcile", "stop", "join", "done"}
      PROVE  Rest'
  BY <1>0, <1>1 DEF mgrvars, LoopTyped
<1>2. ASSUME NEW p \in Paths, Plug(p) \/ Unplug(p), UNCHANGED mgrvars
      PROVE  Rest'
  BY <1>0, <1>1, <1>2, SupervisorAssumption DEF Plug, Unplug, Fault, threads, control
<1>3. ASSUME NEW i \in Workers, ThreadStep(i) \/ SendInput(i) \/ FailUsb(i) \/ Panic(i),
             UNCHANGED mgrvars
      PROVE  Rest'
  <2>1. /\ UNCHANGED <<dead, control>>
        /\ UNCHANGED faults \/ Fault
        /\ UNCHANGED inputs \/ (inputs < MaxInputs /\ inputs' = inputs + 1)
    BY <1>3 DEF ThreadStep, SendInput, FailUsb, Panic, OpenDevice, OpenFails, Announce,
                ObserveStop, FailDead, Finish, ReportAnd, environment
  <2>2. faults' \in 0..MaxFaults /\ inputs' \in 0..MaxInputs
    BY <1>0, <2>1, SupervisorAssumption DEF Fault
  <2> QED
    BY <1>0, <1>1, <1>3, <2>1, <2>2 DEF control
<1>4. CASE (HandleWorkerReport \/ Reconcile) /\ UNCHANGED mgrvars
  BY <1>0, <1>1, <1>4 DEF HandleWorkerReport, Reconcile, environment
<1>5. CASE (Enumerate \/ EnumerateFails \/ JoinAll) /\ UNCHANGED mgrvars
  BY <1>0, <1>1, <1>5 DEF Enumerate, EnumerateFails, JoinAll, environment, threads
<1>6. CASE (Shutdown \/ ObserveShutdown \/ StopAll) /\ UNCHANGED mgrvars
  BY <1>0, <1>1, <1>6 DEF Shutdown, ObserveShutdown, StopAll, environment, threads
<1>7. CASE ReceiveEvent
  <2>1. /\ UNCHANGED <<core_devices, faults, inputs, dead, phase, shutdown, listening>>
    BY <1>7 DEF ReceiveEvent, environment, threads
  <2>2. LoopTyped'
    BY <1>7, EventInHand DEF LoopTyped
  <2>3. command_map' \in [Devices -> 0..MaxWorkers]
    <3>1. Received.worker_id \in 0..MaxWorkers /\ None \in 0..MaxWorkers
      <4>1. Received \in InFlight
        BY <1>7, EventInHand
      <4>2. Received.worker_id \in Workers
        BY <4>1 DEF InFlight
      <4> HIDE DEF Received
      <4> QED
        BY <4>2, SupervisorAssumption DEF Workers, None
    <3>2. command_map' = [d \in Devices |->
             IF Moves(Received, d)
             THEN IF Received.kind = "Connected" THEN Received.worker_id ELSE None
             ELSE command_map[d]]
      BY <1>7, EventInHand
    <3> QED
      BY <1>0, <3>1, <3>2
  <2> QED
    BY <1>0, <2>1, <2>2, <2>3
<1>8. CASE CoreAnswers
  <2>1. /\ UNCHANGED <<command_map, faults, inputs, dead, phase, shutdown, listening>>
        /\ core_devices' = AfterCall /\ loop' = Receiving
    BY <1>8 DEF CoreAnswers, svars, environment, threads, control
  <2> QED
    BY <1>0, <2>1, CallIsKnown DEF LoopTyped
<1>9. CASE EndLoop
  <2>1. /\ UNCHANGED <<command_map, core_devices, faults, inputs, dead, phase>>
        /\ loop' = [at |-> "aborted"] /\ shutdown' = TRUE /\ listening' = FALSE
    BY <1>9 DEF EndLoop, environment, threads
  <2> QED
    BY <1>0, <2>1 DEF LoopTyped
<1>10. CASE UNCHANGED vars
  BY <1>0, <1>1, <1>10 DEF vars, svars, environment, threads, control
<1> QED
  BY <1>2, <1>3, <1>4, <1>5, <1>6, <1>7, <1>8, <1>9, <1>10 DEF Next, SNext, LoopStep

-----------------------------------------------------------------------------
(* The theorems. *)

LEMMA RInvInit == Init => RInv
<1> SUFFICES ASSUME Init
             PROVE  RInv
  OBVIOUS
<1>1. IInv
  BY InitHolds
<1> USE DEF Init, SInit
<1>2. manager_tx = <<>> /\ manager_tx \in Seq(InFlight) /\ Len(manager_tx) = 0
      /\ loop = Receiving /\ loop.at = "recv"
  BY DEF Receiving
<1>3. Rest
  <2>1. LoopTyped
    BY <1>2 DEF LoopTyped
  <2>2. 0 \in 0..MaxFaults /\ 0 \in 0..MaxInputs /\ 0 \in 0..MaxWorkers
    BY SupervisorAssumption
  <2>3. command_map \in [Devices -> 0..MaxWorkers]
    BY <2>2 DEF None
  <2> QED
    BY <2>1, <2>2, <2>3 DEF Rest
<1>4. TypeOK /\ LoopTyped
  BY <1>1, <1>2, <1>3, TypesMakeUp DEF EventsTyped, Rest
<1>5. Separate
  BY ManagerAssumption DEF Separate, Distinct, Taken
<1>6. Named /\ Legal /\ Followed
  BY <1>2 DEF Named, Legal, Followed
<1>7. Attentive
  BY <1>2 DEF Attentive, AfterCall
<1>8. Agree
  BY <1>2, RouteStart DEF Agree
<1>9. Watched
  BY DEF Watched
<1> QED
  BY <1>1, <1>4, <1>5, <1>6, <1>7, <1>8, <1>9 DEF RInv

LEMMA RInvStep == RInv /\ [Next]_vars => RInv'
<1> SUFFICES ASSUME RInv, [Next]_vars
             PROVE  RInv'
  OBVIOUS
<1>1. IInv'
  BY NextHolds DEF RInv
<1>2. EventsHold'
  BY EventsStep
<1>3. Rest'
  BY RestStep
<1>4. TypeOK'
  BY <1>1, <1>2, <1>3, TypesMakeUp, PTL DEF EventsHold
<1>5. Separate' /\ Watched'
  BY SeparateStep, WatchedStep
<1> QED
  BY <1>1, <1>2, <1>3, <1>4, <1>5 DEF RInv, EventsHold, Rest

\* The invariant holds throughout.
LEMMA Always == Spec => []RInv
BY RInvInit, RInvStep, PTL DEF Spec

\* The types.
THEOREM ManagerTypes == Spec => []TypeOK
<1>1. RInv => TypeOK
  BY DEF RInv
<1> QED
  BY <1>1, Always, PTL

\* The route of the properties is that of the lemmas.
LEMMA RouteAfterIs ==
    ASSUME NEW d, NEW n
    PROVE  /\ LastMove(d, n) = LastIn(manager_tx, d, n)
           /\ RouteAfter(d, n) = RouteIn(manager_tx, command_map, d, n)
<1>1. LastMove(d, n) = LastIn(manager_tx, d, n)
  BY DEF LastMove, LastIn, SelectLastInSubSeq, Moves
<1> QED
  BY <1>1 DEF RouteAfter, RouteIn

\* The events, worked off, route each panel's commands to the worker active for it and
\* leave the core with exactly the panels that have one, for any number of workers,
\* faults and panels.
THEOREM RoutesFollow == Spec => []RoutesFollowWorkers
<1>1. RInv => RoutesFollowWorkers
  <2> SUFFICES ASSUME RInv, listening, phase # "done"
               PROVE  RoutesFollowWorkers
    BY DEF RoutesFollowWorkers
  <2> DEFINE n == Len(manager_tx)
             Settled(d) == RouteAfter(d, n)
  <2>1. /\ n \in Nat /\ n \in 0..n
        /\ \A d : Settled(d) = RouteIn(manager_tx, command_map, d, n)
    BY EventTypes, RouteAfterIs
  <2>2. ASSUME NEW d \in Devices
        PROVE  Settled(d) # None <=> \E p \in Paths : Identity(p) = d /\ active[p] # None
    <3> DEFINE i == RouteIn(manager_tx, command_map, d, n)
    <3>1. /\ i = None => \A p \in Paths : Identity(p) = d => active[p] = None
          /\ i # None => active[path_key[i]] = i
      BY DEF RInv, Agree
    <3>2. i # None => path_key[i] \in Paths /\ Identity(path_key[i]) = d
      BY <2>1, RouteIsNamed
    <3>3. Settled(d) = i
      BY <2>1
    <3> HIDE DEF i, Settled
    <3> QED
      BY <3>1, <3>2, <3>3
  <2>3. \A p \in Paths : active[p] # None => Settled(Identity(p)) = active[p]
    BY <2>1, RouteIsActive
  <2>4. ASSUME NEW d \in Devices
        PROVE  d \in KnownAfter(n) <=> Settled(d) # None
    <3> DEFINE k == LastIn(manager_tx, d, n)
    <3>1. k \in 0..n /\ (k # 0 => Moves(manager_tx[k], d))
      BY <2>1, LastInFinds
    <3>2. d \in KnownAfter(n) <=> IF k = 0 THEN d \in AfterCall
                                  ELSE manager_tx[k].kind = "Connected"
      BY RouteAfterIs DEF KnownAfter
    <3>3. Settled(d) = IF k = 0 THEN command_map[d]
                       ELSE IF manager_tx[k].kind = "Connected"
                       THEN manager_tx[k].worker_id ELSE None
      BY <2>1 DEF RouteIn
    <3> HIDE DEF k, Settled
    <3>4. CASE k = 0
      BY <3>2, <3>3, <3>4 DEF RInv, Attentive
    <3>5. CASE k # 0
      <4>1. manager_tx[k].worker_id # None
        BY <2>1, <3>1, <3>5, EventTypes
      <4> QED
        BY <3>2, <3>3, <3>5, <4>1
    <3> QED
      BY <3>4, <3>5
  <2>5. KnownAfter(n) = {d \in Devices : Settled(d) # None}
    <3>1. KnownAfter(n) \subseteq Devices
      BY DEF KnownAfter
    <3> HIDE DEF n, Settled
    <3> QED
      BY <2>4, <3>1
  <2> QED
    BY <2>2, <2>3, <2>5 DEF RoutesFollowWorkers
<1> QED
  BY <1>1, Always, PTL

\* The first event on its way finds the session that the table and the core have.
LEMMA FirstContinues ==
    ASSUME RInv, loop = Receiving, manager_tx # <<>>
    PROVE  /\ listening /\ Received \in InFlight
           /\ Received.worker_id \in Workers /\ Received.worker_id # None
           /\ Identity(Received.path_key) \in Devices
           /\ Continues(Received, command_map[Identity(Received.path_key)])
           /\ core_devices = {d \in Devices : command_map[d] # None}
<1>1. listening /\ AfterCall = core_devices
  BY DEF RInv, Attentive, AfterCall, Receiving
<1>2. 1 \in 1..Len(manager_tx) /\ Received = manager_tx[1] /\ 1 - 1 = 0
  BY EventTypes DEF Received
<1>3. Continues(manager_tx[1],
          RouteIn(manager_tx, command_map, Identity(manager_tx[1].path_key), 0))
  BY <1>1, <1>2 DEF RInv, Legal
<1>4. Continues(manager_tx[1], command_map[Identity(manager_tx[1].path_key)])
  BY <1>3, RouteStart
<1> QED
  BY <1>1, <1>2, <1>4, EventTypes DEF RInv, Attentive

\* Input reaches the core only for a device it has, from the worker its commands go to.
THEOREM NoInputOutside == Spec => []InputInSession
<1>1. RInv => InputInSession
  BY FirstContinues DEF InputInSession, Continues
<1> QED
  BY <1>1, Always, PTL

\* Commands go to a worker that ended only while the supervisor is about to notice.
THEOREM DeadRoutes == Spec => []DeadRouteIsKnown
<1>1. RInv => DeadRouteIsKnown
  <2> SUFFICES ASSUME RInv, NEW d \in Devices, NEW i, i = command_map[d], i # None,
                      ~Alive(i), ~shutdown, phase \notin {"stop", "join", "done"}
               PROVE  \/ \E k \in DOMAIN worker_rx :
                            worker_rx[k].worker_id = i
                            /\ worker_rx[k].kind \in {"Disconnected", "Failed"}
                      \/ \E k \in DOMAIN manager_tx :
                            manager_tx[k].worker_id = i
                            /\ manager_tx[k].kind = "Disconnected"
                      \/ thread[i] = "panicked" /\ i \in owned
    BY DEF DeadRouteIsKnown
  <2>1. DOMAIN worker_rx = 1..Len(worker_rx) /\ DOMAIN manager_tx = 1..Len(manager_tx)
    BY EventTypes DEF RInv, IInv, Typed
  <2>2. LossComes(i, 0)
    BY DEF RInv, Attentive, Followed
  <2>3. CASE active[path_key[i]] = i
    <3>1. path_key[i] \in Paths
      BY EventTypes
    <3>2. Explained(i)
      BY <2>3, <3>1 DEF RInv, Watched
    <3> QED
      BY <2>1, <3>2 DEF Explained, Final
  <2>4. CASE active[path_key[i]] # i
    BY <2>1, <2>2, <2>4 DEF LossComes
  <2> QED
    BY <2>3, <2>4
<1> QED
  BY <1>1, Always, PTL

-----------------------------------------------------------------------------
(* The refinement of DeviceRegistry. *)

\* The core is called for the session the event in hand opens, uses or closes.
LEMMA ReceiveImplements ==
    ASSUME RInv, ReceiveEvent
    PROVE  \/ \E d \in Devices, i \in Workers :
                 Registry!Open(d, i) \/ Registry!Deliver(d, i) \/ Registry!Close(d, i)
           \/ UNCHANGED <<command_map, core_devices, CallUnderWay>>
<1> DEFINE d == Identity(Received.path_key)
           i == Received.worker_id
<1>1. /\ loop = Receiving /\ manager_tx # <<>> /\ core_devices' = core_devices
      /\ RegisterDevice \/ UnregisterDevice \/ RouteInput \/ NoteFailure
  BY DEF ReceiveEvent
<1>2. /\ d \in Devices /\ i \in Workers /\ i # None
      /\ Continues(Received, command_map[d])
      /\ core_devices = {c \in Devices : command_map[c] # None}
  BY <1>1, FirstContinues
<1>3. CallUnderWay = Registry!Idle
  BY <1>1 DEF CallUnderWay, Calls, Receiving, Registry!Idle
<1>4. ASSUME NEW call \in Calls, loop' = Calling(call, Received)
      PROVE  CallUnderWay' = Registry!Call(call, d, i)
  BY <1>4 DEF CallUnderWay, Calling, Registry!Call
<1> HIDE DEF d, i
<1>5. CASE RegisterDevice
  <2>1. /\ Received.kind = "Connected" /\ loop' = Calling("set_device", Received)
        /\ command_map' = [command_map EXCEPT ![d] = i]
    BY <1>5 DEF RegisterDevice, d, i
  <2>2. command_map[d] = None /\ d \notin core_devices
    BY <1>2, <2>1 DEF Continues
  <2>3. CallUnderWay' = Registry!Call("set_device", d, i)
    BY <1>4, <2>1 DEF Calls
  <2>4. Registry!Open(d, i)
    BY <1>1, <1>3, <2>1, <2>2, <2>3 DEF Registry!Open
  <2> QED
    BY <1>2, <2>4
<1>6. CASE UnregisterDevice
  <2>1. /\ Received.kind = "Disconnected" /\ loop' = Calling("remove_device", Received)
        /\ command_map' = [command_map EXCEPT ![d] = None]
    BY <1>6 DEF UnregisterDevice, d
  <2>2. command_map[d] = i /\ d \in core_devices
    BY <1>2, <2>1 DEF Continues, i
  <2>3. CallUnderWay' = Registry!Call("remove_device", d, i)
    BY <1>4, <2>1 DEF Calls
  <2>4. Registry!Close(d, i)
    BY <1>1, <1>3, <2>1, <2>2, <2>3 DEF Registry!Close
  <2> QED
    BY <1>2, <2>4
<1>7. CASE RouteInput
  <2>1. /\ Received.kind = "Input" /\ command_map' = command_map
        /\ loop' = Calling("handle_hardware_message", Received)
    BY <1>7 DEF RouteInput
  <2>2. command_map[d] = i /\ d \in core_devices
    BY <1>2, <2>1 DEF Continues, i
  <2>3. CallUnderWay' = Registry!Call("handle_hardware_message", d, i)
    BY <1>4, <2>1 DEF Calls
  <2>4. Registry!Deliver(d, i)
    BY <1>1, <1>3, <2>1, <2>2, <2>3 DEF Registry!Deliver
  <2> QED
    BY <1>2, <2>4
<1>8. CASE NoteFailure
  BY <1>1, <1>8 DEF NoteFailure, CallUnderWay
<1> QED
  BY <1>1, <1>5, <1>6, <1>7, <1>8

LEMMA AnswerImplements ==
    ASSUME CoreAnswers
    PROVE  Registry!Answer
<1>1. loop.at \in Calls /\ core_devices' = AfterCall /\ loop' = Receiving
      /\ command_map' = command_map
  BY DEF CoreAnswers
<1>2. CallUnderWay = [at |-> loop.at, device |-> Identity(loop.event.path_key),
                      worker |-> loop.event.worker_id]
  BY <1>1 DEF CallUnderWay
<1>3. CallUnderWay.at \in Calls /\ CallUnderWay.at = loop.at
      /\ CallUnderWay.device = Identity(loop.event.path_key)
  BY <1>1, <1>2
<1>4. CallUnderWay \notin {Registry!Idle, Registry!Ended}
  BY <1>3 DEF Calls, Registry!Idle, Registry!Ended
<1>5. CallUnderWay' = Registry!Idle
  BY <1>1 DEF CallUnderWay, Calls, Receiving, Registry!Idle
<1>6. core_devices' = CASE CallUnderWay.at = "set_device" ->
                                core_devices \cup {CallUnderWay.device}
                        [] CallUnderWay.at = "remove_device" ->
                                core_devices \ {CallUnderWay.device}
                        [] OTHER -> core_devices
  BY <1>1, <1>3 DEF AfterCall
<1> QED
  BY <1>1, <1>4, <1>5, <1>6 DEF Registry!Answer

LEMMA EndImplements ==
    ASSUME EndLoop
    PROVE  Registry!End
<1>1. loop.at # "aborted" /\ loop' = [at |-> "aborted"]
      /\ command_map' = command_map /\ core_devices' = core_devices
  BY DEF EndLoop
<1>2. CallUnderWay # Registry!Ended
  BY <1>1 DEF CallUnderWay, Calls, Registry!Ended
<1>3. CallUnderWay' = Registry!Ended
  BY <1>1 DEF CallUnderWay, Calls, Registry!Ended
<1> QED
  BY <1>1, <1>2, <1>3 DEF Registry!End

\* However panels come, go and fail, the core and the command handler see sessions: each
\* device set once, removed once by the end of the same worker, its input in between.
THEOREM ManagerImplementsRegistry == Spec => ImplementsRegistry
<1>1. Init => Registry!DInit
  BY DEF Init, Registry!DInit, Registry!Idle, CallUnderWay, Receiving, Calls
<1>2. RInv /\ [Next]_vars => [Registry!DNext]_(Registry!dvars)
  <2> SUFFICES ASSUME RInv, [Next]_vars
               PROVE  Registry!DNext \/ UNCHANGED <<command_map, core_devices, CallUnderWay>>
    BY DEF Registry!dvars
  <2>1. CASE UNCHANGED mgrvars
    BY <2>1 DEF mgrvars, CallUnderWay
  <2>2. CASE ReceiveEvent
    BY <2>2, ReceiveImplements DEF Registry!DNext
  <2>3. CASE CoreAnswers
    BY <2>3, AnswerImplements DEF Registry!DNext
  <2>4. CASE EndLoop
    BY <2>4, EndImplements DEF Registry!DNext
  <2> QED
    BY <2>1, <2>2, <2>3, <2>4 DEF Next, LoopStep, vars
<1> QED
  BY <1>1, <1>2, Always, PTL DEF Spec, ImplementsRegistry, Registry!DSpec

=============================================================================
