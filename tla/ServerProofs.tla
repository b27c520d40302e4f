---------------------------- MODULE ServerProofs ----------------------------
(***************************************************************************)
(* The safety of the accept loop, for any clients and any number of        *)
(* permits.                                                                *)
(***************************************************************************)
EXTENDS Server, FiniteSetTheorems, TLAPS

\* No receiver is ahead of the channel, and true is in it only if sent.
ChannelOK ==
    /\ runSeen <= channel.version
    /\ \A c \in Clients : seen[c] <= channel.version
    /\ channel.value => stopped

\* A handle is of a connection that was accepted.
HandlesAreTasks == \A c \in handles : conn[c] \notin {"away", "backlog"}

\* The inductive invariant.  The permits can only be counted together with the
\* types; nobody is served after the return because the drain had the handles
\* of all tasks; a signal is news to everybody because no receiver is ahead.
Inv ==
    /\ TypeOK
    /\ PermitsConserved
    /\ HandlesCoverTasks /\ HandlesAreTasks
    /\ NoneServedAfterReturn
    /\ ChannelOK
    /\ NobodyMissesShutdown
    /\ MaxConnections # 0 => StopsOnlyWhenTold

\* The tasks are finitely many, being clients.
LEMMA LiveFinite == IsFiniteSet(Live) /\ Cardinality(Live) \in Nat
<1>1. Live \in SUBSET Clients  BY DEF Live
<1>2. IsFiniteSet(Live)  BY <1>1, FS_Subset, ServerAssumption
<1> QED  BY <1>2, FS_CardinalityType

\* A connection that was accepted adds one task.
LEMMA LiveGrows ==
    ASSUME TypeOK, NEW c \in Clients, conn[c] = "backlog",
           NEW s \in {"handshake", "serving"},
           conn' = [conn EXCEPT ![c] = s]
    PROVE  Live' = Live \cup {c} /\ Cardinality(Live') = Cardinality(Live) + 1
<1>1. Live' = Live \cup {c} /\ c \notin Live
  BY DEF TypeOK, Live
<1> QED  BY <1>1, LiveFinite, FS_AddElement

\* A task that is over is one task less.
LEMMA LiveShrinks ==
    ASSUME TypeOK, NEW c \in Clients,
           conn[c] \in {"handshake", "serving", "aborting"},
           conn' = [conn EXCEPT ![c] = "done"]
    PROVE  Live' = Live \ {c} /\ Cardinality(Live') = Cardinality(Live) - 1
<1>1. Live' = Live \ {c} /\ c \in Live
  BY DEF TypeOK, Live
<1> QED  BY <1>1, LiveFinite, FS_RemoveElement

\* An abort changes no connection's claim to a permit, and leaves no
\* connection that is served.
LEMMA AbortKeepsLive ==
    ASSUME TypeOK, HandlesCoverTasks, HandlesAreTasks, AbortRest
    PROVE  /\ Live' = Live
           /\ conn' \in [Clients -> ConnState]
           /\ \A c \in Clients : conn'[c] \notin {"handshake", "serving"}
           /\ \A c \in handles : conn'[c] \notin {"away", "backlog"}
BY DEF TypeOK, HandlesCoverTasks, HandlesAreTasks, AbortRest, Retain, Live, ConnState

\* Leaving the loop keeps everything but the count of permits, which the two
\* ways out account for by themselves.
LEMMA LeaveLoopKeeps ==
    ASSUME Inv, LeaveLoop, UNCHANGED <<handles, channel, seen, stopped, drainZero>>,
           pc \in {"acquire", "select", "backoff"},
           MaxConnections # 0 => channel.value
    PROVE  /\ Live' = Live /\ ~HoldsPermit'
           /\ pc' \in RunAt /\ conn' \in [Clients -> ConnState]
           /\ HandlesCoverTasks' /\ HandlesAreTasks'
           /\ NoneServedAfterReturn'
           /\ NobodyMissesShutdown'
           /\ MaxConnections # 0 => StopsOnlyWhenTold'
<1> USE DEF Inv
<1>1. CASE AbortRest
  <2>1. /\ Live' = Live
        /\ conn' \in [Clients -> ConnState]
        /\ \A c \in Clients : conn'[c] \notin {"handshake", "serving"}
        /\ \A c \in handles : conn'[c] \notin {"away", "backlog"}
    BY <1>1, AbortKeepsLive
  <2> QED
    BY <1>1, <2>1 DEF AbortRest, HoldsPermit, RunAt, HandlesCoverTasks, HandlesAreTasks,
       NoneServedAfterReturn, NobodyMissesShutdown, StopsOnlyWhenTold, ChannelOK
<1>2. CASE pc' = "drain" /\ UNCHANGED conn
  BY <1>2 DEF TypeOK, Live, HoldsPermit, RunAt, HandlesCoverTasks, HandlesAreTasks,
     NoneServedAfterReturn, NobodyMissesShutdown, StopsOnlyWhenTold, ChannelOK
<1> QED  BY <1>1, <1>2 DEF LeaveLoop

\* The end of a task gives its permit back and disturbs nothing else.
LEMMA EndsKeeps ==
    ASSUME Inv, NEW c \in Clients, Ends(c),
           conn[c] \in {"handshake", "serving", "aborting"}
    PROVE  Inv'
<1> USE DEF Inv
<1>1. Live' = Live \ {c} /\ Cardinality(Live') = Cardinality(Live) - 1
  BY LiveShrinks DEF Ends
<1>2. TypeOK'  BY DEF TypeOK, Ends, ConnState
<1>3. PermitsConserved'
  BY <1>1, LiveFinite, ServerAssumption DEF TypeOK, PermitsConserved, HoldsPermit, Ends
<1>4. HandlesCoverTasks' /\ HandlesAreTasks' /\ NoneServedAfterReturn' /\ NobodyMissesShutdown'
  BY <1>1 DEF TypeOK, Ends, HandlesCoverTasks, HandlesAreTasks,
     NoneServedAfterReturn, NobodyMissesShutdown
<1>5. ChannelOK' /\ (MaxConnections # 0 => StopsOnlyWhenTold')
  BY DEF Ends, ChannelOK, StopsOnlyWhenTold
<1> QED  BY <1>2, <1>3, <1>4, <1>5

LEMMA InitInv == Init => Inv
<1> SUFFICES ASSUME Init PROVE Inv  OBVIOUS
<1>1. Live = {}  BY DEF Init, Live
<1>2. PermitsConserved
  BY <1>1, FS_EmptySet, ServerAssumption DEF Init, PermitsConserved, HoldsPermit
<1>3. TypeOK  BY ServerAssumption DEF Init, TypeOK, RunAt, ConnState
<1>4. HandlesCoverTasks /\ HandlesAreTasks /\ NoneServedAfterReturn
  BY <1>1 DEF Init, HandlesCoverTasks, HandlesAreTasks, NoneServedAfterReturn
<1>5. ChannelOK /\ NobodyMissesShutdown /\ StopsOnlyWhenTold
  BY DEF Init, ChannelOK, NobodyMissesShutdown, StopsOnlyWhenTold
<1> QED  BY <1>2, <1>3, <1>4, <1>5 DEF Inv

\* Every step keeps the invariant, action by action.
LEMMA NextInv == Inv /\ [Next]_vars => Inv'
<1> SUFFICES ASSUME Inv, [Next]_vars PROVE Inv'  OBVIOUS
<1> USE DEF Inv
<1>1. ASSUME NEW c \in Clients, Connect(c) PROVE Inv'
  <2>1. TypeOK' /\ Live' = Live  BY <1>1 DEF Connect, TypeOK, ConnState, Live
  <2> QED
    BY <1>1, <2>1 DEF Connect, TypeOK, PermitsConserved, HoldsPermit, HandlesCoverTasks,
       HandlesAreTasks, NoneServedAfterReturn, ChannelOK, NobodyMissesShutdown, StopsOnlyWhenTold
<1>2. ASSUME NEW c \in Clients, Accept(c) PROVE Inv'
  <2>1. Live' = Live \cup {c} /\ Cardinality(Live') = Cardinality(Live) + 1
    BY <1>2, LiveGrows DEF Accept
  <2>2. TypeOK'  BY <1>2 DEF Accept, TypeOK, RunAt, ConnState, Retain
  <2>3. PermitsConserved'
    BY <1>2, <2>1, LiveFinite, ServerAssumption
       DEF Accept, TypeOK, PermitsConserved, HoldsPermit
  <2>4. HandlesCoverTasks'
    BY <1>2, <2>1 DEF Accept, HandlesCoverTasks, Retain, Live
  <2>5. HandlesAreTasks'
    BY <1>2 DEF Accept, TypeOK, HandlesAreTasks, Retain
  <2>6. ChannelOK' /\ NobodyMissesShutdown'
    BY <1>2 DEF Accept, TypeOK, ChannelOK, NobodyMissesShutdown
  <2>7. NoneServedAfterReturn' /\ (MaxConnections # 0 => StopsOnlyWhenTold')
    BY <1>2 DEF Accept, NoneServedAfterReturn, StopsOnlyWhenTold
  <2> QED  BY <2>2, <2>3, <2>4, <2>5, <2>6, <2>7
<1>3. ASSUME NEW c \in Clients, HandshakeDone(c) PROVE Inv'
  <2>1. TypeOK' /\ Live' = Live  BY <1>3 DEF HandshakeDone, TypeOK, ConnState, Live
  <2> QED
    BY <1>3, <2>1 DEF HandshakeDone, TypeOK, PermitsConserved, HoldsPermit, HandlesCoverTasks,
       HandlesAreTasks, NoneServedAfterReturn, ChannelOK, NobodyMissesShutdown, StopsOnlyWhenTold
<1>4. ASSUME NEW c \in Clients, TaskEnds(c) \/ TaskAborted(c) PROVE Inv'
  BY <1>4, EndsKeeps DEF TaskEnds, TaskAborted
<1>5. ASSUME NEW c \in Clients, TaskSignal(c) PROVE Inv'
  <2>1. CASE Ends(c)  BY <1>5, <2>1, EndsKeeps DEF TaskSignal
  <2>2. CASE /\ ~channel.value /\ seen' = [seen EXCEPT ![c] = channel.version]
             /\ UNCHANGED <<pc, free, handles, conn, channel, runSeen, stopped, drainZero>>
    BY <2>2 DEF TypeOK, PermitsConserved, HoldsPermit, Live, HandlesCoverTasks,
       HandlesAreTasks, NoneServedAfterReturn, ChannelOK, NobodyMissesShutdown, StopsOnlyWhenTold
  <2> QED  BY <1>5, <2>1, <2>2 DEF TaskSignal
<1>6. ASSUME NEW v \in BOOLEAN, Send(v) PROVE Inv'
  <2>1. TypeOK' /\ Live' = Live  BY <1>6 DEF Send, TypeOK, Live
  <2>2. ChannelOK' /\ NobodyMissesShutdown'
    BY <1>6 DEF Send, TypeOK, ChannelOK, NobodyMissesShutdown
  <2> QED
    BY <1>6, <2>1, <2>2 DEF Send, PermitsConserved, HoldsPermit, HandlesCoverTasks,
       HandlesAreTasks, NoneServedAfterReturn, StopsOnlyWhenTold
<1>7. CASE Start \/ StartFails
  BY <1>7 DEF Start, StartFails, TypeOK, RunAt, PermitsConserved, HoldsPermit, Live,
     HandlesCoverTasks, HandlesAreTasks, NoneServedAfterReturn, ChannelOK,
     NobodyMissesShutdown, StopsOnlyWhenTold
<1>8. CASE Acquire
  <2>1. CASE MaxConnections = 0
    <3>1. /\ LeaveLoop /\ pc = "acquire"
          /\ UNCHANGED <<free, handles, channel, runSeen, seen, stopped, drainZero>>
      BY <1>8, <2>1 DEF Acquire
    <3>2. /\ Live' = Live /\ ~HoldsPermit'
          /\ pc' \in RunAt /\ conn' \in [Clients -> ConnState]
          /\ HandlesCoverTasks' /\ HandlesAreTasks'
          /\ NoneServedAfterReturn' /\ NobodyMissesShutdown'
          /\ MaxConnections # 0 => StopsOnlyWhenTold'
      BY <2>1, <3>1, LeaveLoopKeeps
    <3> QED
      BY <3>1, <3>2 DEF TypeOK, PermitsConserved, HoldsPermit, ChannelOK
  <2>2. CASE MaxConnections # 0
    <3>1. /\ pc = "acquire" /\ free > 0 /\ free' = free - 1 /\ pc' = "select"
          /\ UNCHANGED <<conn, handles, channel, runSeen, seen, stopped, drainZero>>
      BY <1>8, <2>2 DEF Acquire
    <3>2. Live' = Live  BY <3>1 DEF Live
    <3>3. PermitsConserved'
      BY <3>1, <3>2, LiveFinite, ServerAssumption DEF TypeOK, PermitsConserved, HoldsPermit
    <3> QED
      BY <3>1, <3>2, <3>3 DEF TypeOK, RunAt, HandlesCoverTasks, HandlesAreTasks,
         NoneServedAfterReturn, ChannelOK, NobodyMissesShutdown, StopsOnlyWhenTold
  <2> QED  BY <2>1, <2>2
<1>9. CASE AcceptFails
  BY <1>9 DEF AcceptFails, TypeOK, RunAt, PermitsConserved, HoldsPermit, Live,
     HandlesCoverTasks, HandlesAreTasks, NoneServedAfterReturn, ChannelOK,
     NobodyMissesShutdown, StopsOnlyWhenTold
<1>10. CASE BackoffOver
  <2>1. Live' = Live  BY <1>10 DEF BackoffOver, Live
  <2>2. PermitsConserved'
    BY <1>10, <2>1, LiveFinite, ServerAssumption
       DEF BackoffOver, TypeOK, PermitsConserved, HoldsPermit
  <2>3. HandlesCoverTasks' /\ HandlesAreTasks'
    BY <1>10, <2>1 DEF BackoffOver, HandlesCoverTasks, HandlesAreTasks, Retain, Live
  <2> QED
    BY <1>10, <2>2, <2>3 DEF BackoffOver, TypeOK, RunAt, Retain, NoneServedAfterReturn,
       ChannelOK, NobodyMissesShutdown, StopsOnlyWhenTold
<1>11. CASE RunSignal
  <2>0. /\ pc \in {"select", "backoff"} /\ runSeen' = channel.version /\ free' = free + 1
        /\ UNCHANGED <<channel, seen, stopped, drainZero>>
    BY <1>11 DEF RunSignal
  <2>1. CASE channel.value /\ LeaveLoop /\ UNCHANGED handles
    <3>1. /\ Live' = Live /\ ~HoldsPermit'
          /\ pc' \in RunAt /\ conn' \in [Clients -> ConnState]
          /\ HandlesCoverTasks' /\ HandlesAreTasks'
          /\ NoneServedAfterReturn' /\ NobodyMissesShutdown'
          /\ MaxConnections # 0 => StopsOnlyWhenTold'
      BY <2>0, <2>1, LeaveLoopKeeps
    <3>2. PermitsConserved'
      BY <2>0, <3>1, LiveFinite, ServerAssumption DEF TypeOK, PermitsConserved, HoldsPermit
    <3> QED  BY <2>0, <2>1, <3>1, <3>2 DEF TypeOK, ChannelOK
  <2>2. CASE /\ ~channel.value
             /\ pc' = "acquire" /\ handles' = Retain(handles) /\ UNCHANGED conn
    <3>1. Live' = Live  BY <2>2 DEF Live
    <3>2. PermitsConserved'
      BY <2>0, <2>2, <3>1, LiveFinite, ServerAssumption
         DEF TypeOK, PermitsConserved, HoldsPermit
    <3>3. HandlesCoverTasks' /\ HandlesAreTasks'
      BY <2>2, <3>1 DEF HandlesCoverTasks, HandlesAreTasks, Retain, Live
    <3> QED
      BY <2>0, <2>2, <3>2, <3>3 DEF TypeOK, RunAt, Retain, NoneServedAfterReturn,
         ChannelOK, NobodyMissesShutdown, StopsOnlyWhenTold
  <2> QED  BY <1>11, <2>1, <2>2 DEF RunSignal
<1>12. CASE DrainDone
  BY <1>12 DEF DrainDone, Retain, TypeOK, RunAt, PermitsConserved, HoldsPermit, Live,
     HandlesCoverTasks, HandlesAreTasks, NoneServedAfterReturn, ChannelOK,
     NobodyMissesShutdown, StopsOnlyWhenTold
<1>13. CASE DrainExpires
  <2>1. /\ Live' = Live
        /\ conn' \in [Clients -> ConnState]
        /\ \A c \in Clients : conn'[c] \notin {"handshake", "serving"}
        /\ \A c \in handles : conn'[c] \notin {"away", "backlog"}
    BY <1>13, AbortKeepsLive DEF DrainExpires
  <2> QED
    BY <1>13, <2>1 DEF DrainExpires, AbortRest, TypeOK, RunAt, PermitsConserved, HoldsPermit,
       HandlesCoverTasks, HandlesAreTasks, NoneServedAfterReturn, ChannelOK,
       NobodyMissesShutdown, StopsOnlyWhenTold
<1>14. CASE UNCHANGED vars
  BY <1>14 DEF vars, TypeOK, PermitsConserved, HoldsPermit, Live, HandlesCoverTasks,
     HandlesAreTasks, NoneServedAfterReturn, ChannelOK, NobodyMissesShutdown, StopsOnlyWhenTold
<1> QED
  BY <1>1, <1>2, <1>3, <1>4, <1>5, <1>6, <1>7, <1>8, <1>9, <1>10, <1>11, <1>12, <1>13, <1>14
     DEF Next, RunStep, Finished

THEOREM Invariance == Spec => []Inv
BY InitInv, NextInv, PTL DEF Spec

\* The variables keep their types.
THEOREM TypeCorrect == Spec => []TypeOK
<1>1. Inv => TypeOK  BY DEF Inv
<1> QED  BY <1>1, Invariance, PTL

\* No path through run or through a task loses or makes a permit, so at most
\* max_connections tasks are alive and the accept loop never runs dry.
THEOREM PermitSafety == Spec => []PermitsConserved
<1>1. Inv => PermitsConserved  BY DEF Inv
<1> QED  BY <1>1, Invariance, PTL

\* connection_handles has the handle of every task, so the drain misses none.
THEOREM HandlesComplete == Spec => []HandlesCoverTasks
<1>1. Inv => HandlesCoverTasks  BY DEF Inv
<1> QED  BY <1>1, Invariance, PTL

\* The drain leaves nobody served, whether drain_timeout is 0 or not.
THEOREM DrainSafety == Spec => []NoneServedAfterReturn
<1>1. Inv => NoneServedAfterReturn  BY DEF Inv
<1> QED  BY <1>1, Invariance, PTL

\* No receiver of the watch channel consumes a true and carries on.
THEOREM ShutdownHeard == Spec => []NobodyMissesShutdown
<1>1. Inv => NobodyMissesShutdown  BY DEF Inv
<1> QED  BY <1>1, Invariance, PTL

\* With a limit on connections, run leaves its loop only after true was sent.
THEOREM StopsWhenTold == MaxConnections # 0 => (Spec => []StopsOnlyWhenTold)
<1> SUFFICES ASSUME MaxConnections # 0 PROVE Spec => []StopsOnlyWhenTold  OBVIOUS
<1>1. Inv => StopsOnlyWhenTold  BY DEF Inv
<1> QED  BY <1>1, Invariance, PTL
=============================================================================
