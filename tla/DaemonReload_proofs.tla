------------------------- MODULE DaemonReload_proofs -------------------------
(***************************************************************************)
(* The pointer that all currencies share never dangles, and a query during *)
(* which nothing is being reloaded uses the rates of the snapshot it       *)
(* answers from: for any number of requests, saves and reloads.            *)
(***************************************************************************)
EXTENDS DaemonReload, TLAPS

(* What holds between the watcher, the process and the lock.               *)
WatcherInOrder ==
  /\ up \in {"down", "starting", "up"}
  /\ watcher \in {"asleep", "changed", "built", "read"}
  /\ watcher # "asleep" => Running
  /\ watcher = "read" => cand # Nothing

\* A request that was let in has a snapshot to answer from, and one that runs
\* has the lock.
RequestsInOrder ==
  /\ request \in [Requests -> {"none", "checked", "running"}]
  /\ alone \in [Requests -> BOOLEAN]
  /\ \A r \in Requests :
       /\ request[r] # "none" => served # Nothing
       /\ request[r] = "running" => lock = r

\* The inductive invariant.
IInv ==
  /\ file \in Nat \cup {Gone, Void} /\ saves \in Nat
  /\ WatcherInOrder
  /\ RequestsInOrder
  /\ history \in {"served", "candidate", Nothing}
  /\ history = "candidate" => watcher \in {"built", "read"}
  /\ history = "served" => served # Nothing
  /\ UndisturbedRatesAreOwn

-----------------------------------------------------------------------------
(* Before the daemon is started there is nothing to be out of order.       *)
LEMMA IInvInit == Init => IInv
  BY DaemonAssumption
  DEF Init, IInv, WatcherInOrder, RequestsInOrder, UndisturbedRatesAreOwn, Running

(* The end of the process ends its threads and its requests with it.       *)
LEMMA StopsKeeps ==
  ASSUME IInv, Stops, file' \in Nat \cup {Gone, Void}
  PROVE  IInv'
  BY DaemonAssumption
  DEF Stops, IInv, WatcherInOrder, RequestsInOrder, UndisturbedRatesAreOwn, Running

(* Nothing of the invariant depends on the archive but its type.           *)
LEMMA DiskKeeps ==
  ASSUME IInv, file' \in Nat \cup {Gone, Void}, saves' \in Nat,
         UNCHANGED <<up, reload, snapshot, lock, history, clients>>
  PROVE  IInv'
  BY DEF reload, snapshot, clients, IInv, WatcherInOrder, RequestsInOrder,
         UndisturbedRatesAreOwn, Running

(* A reload that gives up drops its candidate, and the pointer with it if  *)
(* it still points there.                                                  *)
LEMMA ReadIntoKeeps ==
  ASSUME IInv, ReadInto
  PROVE  IInv'
  <1>1. CASE /\ file \notin {Gone, Void} /\ cand' = file /\ watcher' = "read"
             /\ UNCHANGED <<disk, up, seen, snapshot, lock, history, clients>>
    BY <1>1, DaemonAssumption
    DEF disk, snapshot, clients, ReadInto, IInv, WatcherInOrder, RequestsInOrder,
        UndisturbedRatesAreOwn, Running
  <1>2. CASE /\ file' = Void /\ GivesUp
             /\ up = "up" => history' = AfterDestroying("candidate")
    <2>1. CASE up = "starting"
      BY <1>2, <2>1, StopsKeeps DEF GivesUp
    <2>2. CASE up # "starting"
      <3>1. up = "up"
        BY <2>2 DEF ReadInto, IInv, WatcherInOrder, Running
      <3>2. history' = IF history = "candidate" THEN Nothing ELSE history
        BY <1>2, <3>1 DEF AfterDestroying
      <3>3. watcher' = "asleep" /\ UNCHANGED <<up, cand, saves, snapshot, lock, clients>>
        BY <1>2, <2>2 DEF GivesUp
      <3>4. QED
        BY <1>2, <3>1, <3>2, <3>3, DaemonAssumption
        DEF snapshot, clients, IInv, WatcherInOrder, RequestsInOrder,
            UndisturbedRatesAreOwn, Running
    <2>3. QED BY <2>1, <2>2
  <1>3. CASE Stops /\ UNCHANGED file
    BY <1>3, StopsKeeps DEF IInv
  <1>4. QED BY <1>1, <1>2, <1>3 DEF ReadInto

(* The swap waits for the request that runs, so no query sees it; the      *)
(* pointer either moves with the snapshot or is cleared.                   *)
LEMMA SwapKeeps ==
  ASSUME IInv, Swap
  PROVE  IInv'
  <1>1. \A r \in Requests : request[r] # "running"
    BY DaemonAssumption DEF Swap, IInv, RequestsInOrder
  <1>2. served' # Nothing
    BY DEF Swap, IInv, WatcherInOrder
  <1>3. history' \in {"served", Nothing}
    BY DEF Swap, AfterDestroying, IInv
  <1>4. QED
    BY <1>1, <1>2, <1>3, DaemonAssumption
    DEF Swap, disk, clients, IInv, WatcherInOrder, RequestsInOrder,
        UndisturbedRatesAreOwn, Running

(* Every step keeps the invariant.                                         *)
LEMMA IInvNext ==
  ASSUME IInv, [Next]_vars
  PROVE  IInv'
  <1>1. CASE UNCHANGED vars
    BY <1>1 DEF vars, disk, reload, snapshot, clients, IInv, WatcherInOrder,
                RequestsInOrder, UndisturbedRatesAreOwn, Running
  <1>2. CASE Remove
    BY <1>2, DiskKeeps DEF Remove, IInv
  <1>3. CASE Rename
    BY <1>3, DiskKeeps DEF Rename, IInv
  <1>4. CASE Restart
    BY <1>4 DEF Restart, disk, reload, snapshot, clients, IInv, WatcherInOrder,
                RequestsInOrder, UndisturbedRatesAreOwn, Running
  <1>5. CASE Stat
    <2>1. CASE up = "starting" /\ GivesUp /\ UNCHANGED file
      BY <2>1, StopsKeeps DEF GivesUp, IInv
    <2>2. CASE /\ watcher' = "changed" /\ watcher = "asleep"
               /\ UNCHANGED <<disk, up, cand, snapshot, lock, history, clients>>
      BY <1>5, <2>2 DEF Stat, disk, snapshot, clients, IInv, WatcherInOrder,
                        RequestsInOrder, UndisturbedRatesAreOwn, Running
    <2>3. QED BY <1>5, <2>1, <2>2 DEF Stat
  <1>6. CASE Construct
    BY <1>6 DEF Construct, disk, snapshot, clients, IInv, WatcherInOrder,
                RequestsInOrder, UndisturbedRatesAreOwn, Running
  <1>7. CASE ReadInto
    BY <1>7, ReadIntoKeeps
  <1>8. CASE Swap
    BY <1>8, SwapKeeps
  <1>9. ASSUME NEW r \in Requests, Ask(r) PROVE IInv'
    BY <1>9 DEF Ask, disk, reload, snapshot, IInv, WatcherInOrder,
                RequestsInOrder, UndisturbedRatesAreOwn, Running
  <1>10. ASSUME NEW r \in Requests, Enter(r) PROVE IInv'
    BY <1>10, DaemonAssumption
    DEF Enter, disk, reload, snapshot, IInv, WatcherInOrder, RequestsInOrder,
        UndisturbedRatesAreOwn, Running
  <1>11. ASSUME NEW r \in Requests, Leave(r) PROVE IInv'
    BY <1>11, DaemonAssumption
    DEF Leave, disk, reload, snapshot, IInv, WatcherInOrder, RequestsInOrder,
        UndisturbedRatesAreOwn, Running
  <1>12. QED
    BY <1>1, <1>2, <1>3, <1>4, <1>5, <1>6, <1>7, <1>8, <1>9, <1>10, <1>11
    DEF Next, Watch

-----------------------------------------------------------------------------
(* The inductive invariant holds in every reachable state.                 *)
THEOREM InvariantHolds == Spec => []IInv
  <1>1. IInv /\ [Next]_vars => IInv'
    BY IInvNext
  <1>2. QED BY IInvInit, <1>1, PTL DEF Spec

(* The pointer to the rates never outlives what it points to: whatever the *)
(* order in which ~AccountManager(), a failing reload, the swap and the    *)
(* requests set and clear it.                                              *)
THEOREM PointerNeverDangles == Spec => []PointsToLiving
  <1>1. IInv => PointsToLiving
    BY DaemonAssumption DEF IInv, PointsToLiving
  <1>2. QED BY InvariantHolds, <1>1, PTL

(* A request during which no candidate lives converts with the rates of    *)
(* the snapshot it answers from (SetHistory() under the lock).             *)
THEOREM UndisturbedRequestsAreConsistent == Spec => []UndisturbedRatesAreOwn
  <1>1. IInv => UndisturbedRatesAreOwn
    BY DEF IInv
  <1>2. QED BY InvariantHolds, <1>1, PTL

-----------------------------------------------------------------------------
(* What is served, against what is on disk. Contents are the numbers of    *)
(* saves, and grow.                                                        *)
Numbers == Version \cup {Nothing}
Stamps == Version \cup {Void, Nothing}

\* No content is newer than the last save, and an archive that has one is it.
DiskInOrder ==
  /\ mayWrite \in Rights /\ desktop \in {"idle", "replacing"}
  /\ saves \in Version /\ file \in {saves, Gone, Void}
  /\ asked \in 0 .. MaxAsked /\ lock \in Requests \cup {Nothing}

\* The time stamp is taken before the contents are read: it may be older than
\* they are, and never newer. A candidate is not older than what is served.
StampsInOrder ==
  /\ seen \in Stamps /\ stamp \in Stamps /\ cand \in Numbers /\ served \in Numbers
  /\ \A v \in {seen, stamp, cand, served} : v \in Nat => v <= saves
  /\ stamp \in Nat => served \in Nat /\ stamp <= served
  /\ watcher = "read" => /\ seen \in Nat => seen <= cand
                         /\ served \in Nat => served <= cand

\* The inductive invariant, on top of the one above.
SInv == DiskInOrder /\ StampsInOrder

(* It holds before the daemon is started.                                  *)
LEMMA SInvInit == Init => SInv
  BY DaemonAssumption
  DEF Init, SInv, DiskInOrder, StampsInOrder, Version, Numbers, Stamps

(* The end of the process leaves the archive, and nothing served.          *)
LEMMA StopsInOrder ==
  ASSUME SInv, Stops, file' \in {saves, Gone, Void}
  PROVE  SInv'
  BY DaemonAssumption
  DEF Stops, SInv, DiskInOrder, StampsInOrder, Version, Numbers, Stamps

(* A reload that gives up leaves what was served.                          *)
LEMMA GivesUpInOrder ==
  ASSUME SInv, GivesUp, file' \in {saves, Gone, Void}
  PROVE  SInv'
  <1>1. CASE up = "starting"
    BY <1>1, StopsInOrder DEF GivesUp
  <1>2. CASE up # "starting"
    BY <1>2, DaemonAssumption
    DEF GivesUp, snapshot, clients, SInv, DiskInOrder, StampsInOrder, Version,
        Numbers, Stamps
  <1>3. QED BY <1>1, <1>2

(* Every step keeps them in order.                                         *)
LEMMA SInvNext ==
  ASSUME IInv, SInv, [Next]_vars
  PROVE  SInv'
  <1> USE DaemonAssumption DEF Version, Numbers, Stamps
  <1>1. CASE UNCHANGED vars
    BY <1>1 DEF vars, disk, reload, snapshot, clients, SInv, DiskInOrder, StampsInOrder
  <1>2. CASE Remove
    BY <1>2 DEF Remove, reload, snapshot, clients, SInv, DiskInOrder, StampsInOrder
  <1>3. CASE Rename
    BY <1>3 DEF Rename, reload, snapshot, clients, SInv, DiskInOrder, StampsInOrder
  <1>4. CASE Restart
    BY <1>4 DEF Restart, disk, reload, snapshot, clients, SInv, DiskInOrder,
                StampsInOrder
  <1>5. CASE Stat
    <2>1. CASE GivesUp /\ UNCHANGED file
      BY <2>1, GivesUpInOrder DEF SInv, DiskInOrder
    <2>2. CASE /\ file # Gone /\ seen' = file /\ watcher' = "changed"
               /\ UNCHANGED <<disk, up, cand, snapshot, lock, history, clients>>
      BY <2>2 DEF disk, snapshot, clients, SInv, DiskInOrder, StampsInOrder
    <2>3. QED BY <1>5, <2>1, <2>2 DEF Stat
  <1>6. CASE Construct
    BY <1>6 DEF Construct, disk, snapshot, SInv, DiskInOrder, StampsInOrder
  <1>7. CASE ReadInto
    <2>1. CASE /\ file \notin {Gone, Void} /\ cand' = file /\ watcher' = "read"
               /\ UNCHANGED <<disk, up, seen, snapshot, lock, history, clients>>
      BY <2>1 DEF disk, snapshot, clients, SInv, DiskInOrder, StampsInOrder
    <2>2. CASE file' = Void /\ GivesUp
      BY <2>2, GivesUpInOrder
    <2>3. CASE Stops /\ UNCHANGED file
      BY <2>3, StopsInOrder DEF SInv, DiskInOrder
    <2>4. QED BY <1>7, <2>1, <2>2, <2>3 DEF ReadInto
  <1>8. CASE Swap
    BY <1>8 DEF Swap, disk, clients, IInv, WatcherInOrder, SInv, DiskInOrder,
                StampsInOrder
  <1>9. ASSUME NEW r \in Requests, Ask(r) PROVE SInv'
    BY <1>9 DEF Ask, disk, reload, snapshot, SInv, DiskInOrder, StampsInOrder
  <1>10. ASSUME NEW r \in Requests, Enter(r) PROVE SInv'
    BY <1>10 DEF Enter, disk, reload, snapshot, SInv, DiskInOrder, StampsInOrder
  <1>11. ASSUME NEW r \in Requests, Leave(r) PROVE SInv'
    BY <1>11 DEF Leave, disk, reload, snapshot, SInv, DiskInOrder, StampsInOrder
  <1>12. QED
    BY <1>1, <1>2, <1>3, <1>4, <1>5, <1>6, <1>7, <1>8, <1>9, <1>10, <1>11
    DEF Next, Watch

(* In every reachable state the stamp is not newer than what is served,    *)
(* and nothing is newer than the last save.                                *)
THEOREM StampsStayInOrder == Spec => []SInv
  <1>1. IInv /\ SInv /\ [Next]_vars => SInv'
    BY SInvNext
  <1>2. QED BY InvariantHolds, SInvInit, <1>1, PTL DEF Spec

(* The state of the daemon is of its types.                                *)
THEOREM TypesHold == Spec => []TypeOK
  <1>1. IInv /\ SInv => TypeOK
    BY DEF IInv, WatcherInOrder, RequestsInOrder, SInv, DiskInOrder, StampsInOrder,
           TypeOK, Numbers, Stamps
  <1>2. QED BY InvariantHolds, StampsStayInOrder, <1>1, PTL

(* The watcher leaves alone only an archive that is served already, however *)
(* the saves of the desktop fell between the steps of ReloadIfChanged().   *)
THEOREM NoSaveIsSkipped == Spec => []SkipsNothingNew
  <1>1. SInv => SkipsNothingNew
    BY DaemonAssumption
    DEF SInv, DiskInOrder, StampsInOrder, SkipsNothingNew, Version, Numbers
  <1>2. QED BY StampsStayInOrder, <1>1, PTL

(* Answers come from archives that do not grow older, as long as the       *)
(* process lives.                                                          *)
THEOREM AnswersDoNotAge == Spec => AnswersNeverAge
  <1>1. IInv /\ SInv /\ [Next]_vars
          => [served # Nothing /\ served' # Nothing => served <= served']_vars
    <2> SUFFICES ASSUME IInv, SInv, Next, served # Nothing, served' # Nothing
                 PROVE  served <= served'
      OBVIOUS
    <2>0. served \in Nat
      BY DEF SInv, StampsInOrder, Numbers, Version
    <2>1. CASE UNCHANGED served
      BY <2>0, <2>1
    <2>2. CASE Swap
      BY <2>0, <2>2 DEF Swap, SInv, StampsInOrder
    <2>3. ~Stops
      BY DEF Stops
    <2>4. Next => Swap \/ Stops \/ UNCHANGED served
      BY DEF Next, Watch, Remove, Rename, Restart, Stat, Construct, ReadInto, GivesUp,
             Ask, Enter, Leave, snapshot
    <2>5. QED BY <2>1, <2>2, <2>3, <2>4
  <1>2. QED
    BY InvariantHolds, StampsStayInOrder, <1>1, PTL DEF Spec, AnswersNeverAge
=============================================================================
