---------------------------- MODULE AgentdProofs ----------------------------
(***************************************************************************)
(* Proofs about Agentd for every number of commands, kill requests and     *)
(* pids and every size of the pipes.                                       *)
(***************************************************************************)
EXTENDS Agentd, TLAPS

(* What is known of a command at each stage of its run: in particular that *)
(* an id is told when its run is over.                                     *)
Flow ==
  \A c \in Cmds :
    /\ host[c] = "idle" <=> pc[c] = "off"
    /\ host[c] = "told" => pc[c] = "done"
    /\ pc[c] # "off" => ask[c] \in Requests
    /\ pc[c] \in {"enter", "feed"} => c \in Unreaped
    /\ c \in Unreaped => pid[c] \in Pids
    /\ answer[c] = "timeout" => pc[c] \in {"leave", "reply", "done"}

Named ==
  \A k \in Kills :
    /\ kill[k].at \in {"sent", "found"} => kill[k].id \in Cmds
    /\ kill[k].told => kill[k].id \in Cmds /\ pc[kill[k].id] = "done"

(* Before anything is drained, the input of a filter is in the request and *)
(* the two pipes.                                                          *)
Units ==
  \A c \in Cmds :
    /\ pc[c] \in {"off", "spawn"} => inPipe[c] = 0 /\ outPipe[c] = 0 /\ ~heir[c]
    /\ pc[c] \in {"enter", "feed"} /\ ask[c].prog = "filter"
         => unfed[c] + inPipe[c] + outPipe[c] = ask[c].size
    /\ heir[c] => ask[c].prog = "daemon"

Inv ==
  /\ TypeOK /\ Flow /\ Named /\ Units /\ UnlockedRunsAreDropped
  /\ NoChildSurvives /\ RegistryIsExact /\ KnownKillMisses /\ OnlyBigInputsTimeOut

(* Inv holds of the initial state.                                         *)
LEMMA Start == Init => Inv
  BY AgentdAssumption
  DEF Init, Idle, Inv, TypeOK, Stages, Flow, Named, Units, Unreaped, Registered, Running,
    UnlockedRunsAreDropped, NoChildSurvives, RegistryIsExact, KnownKillMisses,
    OnlyBigInputsTimeOut

(* Every step preserves it: one step below per action, in it one per       *)
(* conjunct.                                                               *)
LEMMA Step == Inv /\ [Next]_vars => Inv'
  <1> SUFFICES ASSUME Inv, [Next]_vars PROVE Inv'
    OBVIOUS
  <1> USE AgentdAssumption DEF Inv, callers, process, pipes
  <1>1. ASSUME NEW c \in Cmds, NEW request \in Requests, SendRun(c, request) PROVE Inv'
    <2>1. TypeOK'
      BY <1>1 DEF SendRun, TypeOK, Registered, Stages
    <2>2. Flow'
      BY <1>1 DEF SendRun, TypeOK, Flow, Registered, Unreaped
    <2>3. Named'
      BY <1>1 DEF SendRun, TypeOK, Named, Flow
    <2>4. Units'
      BY <1>1 DEF SendRun, TypeOK, Flow, Units, Unreaped, Registered
    <2>5. UnlockedRunsAreDropped'
      BY <1>1 DEF SendRun, TypeOK, Flow, UnlockedRunsAreDropped, Running
    <2>6. NoChildSurvives'
      BY <1>1 DEF SendRun, TypeOK, NoChildSurvives, Flow, Unreaped
    <2>7. RegistryIsExact'
      BY <1>1 DEF SendRun, TypeOK, RegistryIsExact, Registered, Unreaped, Flow
    <2>8. KnownKillMisses'
      BY <1>1 DEF SendRun, TypeOK, KnownKillMisses, Flow, Named,
        RegistryIsExact, Registered
    <2>9. OnlyBigInputsTimeOut'
      BY <1>1 DEF SendRun, TypeOK, OnlyBigInputsTimeOut, Units, Flow
    <2> QED BY <2>1, <2>2, <2>3, <2>4, <2>5, <2>6, <2>7, <2>8, <2>9
  <1>2. ASSUME NEW c \in Cmds, DropRun(c) PROVE Inv'
    <2>1. TypeOK'
      BY <1>2 DEF DropRun, Unlock, TypeOK, Registered, Stages
    <2>2. Flow'
      BY <1>2 DEF DropRun, Unlock, TypeOK, Flow, Registered, Unreaped
    <2>3. Named'
      BY <1>2 DEF DropRun, Unlock, TypeOK, Named, Flow
    <2>4. Units'
      BY <1>2 DEF DropRun, Unlock, TypeOK, Flow, Units, Unreaped, Registered
    <2>5. UnlockedRunsAreDropped'
      BY <1>2 DEF DropRun, Unlock, TypeOK, Flow, UnlockedRunsAreDropped,
        Running
    <2>6. NoChildSurvives'
      BY <1>2 DEF DropRun, Unlock, TypeOK, NoChildSurvives, Flow, Unreaped
    <2>7. RegistryIsExact'
      BY <1>2 DEF DropRun, Unlock, TypeOK, RegistryIsExact, Registered,
        Unreaped, Flow
    <2>8. KnownKillMisses'
      BY <1>2 DEF DropRun, Unlock, TypeOK, KnownKillMisses, Flow, Named,
        RegistryIsExact, Registered
    <2>9. OnlyBigInputsTimeOut'
      BY <1>2 DEF DropRun, Unlock, TypeOK, OnlyBigInputsTimeOut, Units, Flow
    <2> QED BY <2>1, <2>2, <2>3, <2>4, <2>5, <2>6, <2>7, <2>8, <2>9
  <1>3. ASSUME NEW c \in Cmds, Spawn(c) PROVE Inv'
    <2>1. TypeOK'
      BY <1>3 DEF Spawn, Goto, FreePids, Flow, Unreaped, TypeOK, Registered,
        Stages
    <2>2. Flow'
      BY <1>3 DEF Spawn, Goto, FreePids, TypeOK, Flow, Registered, Unreaped
    <2>3. Named'
      BY <1>3 DEF Spawn, Goto, FreePids, TypeOK, Named, Flow
    <2>4. Units'
      BY <1>3 DEF Spawn, Goto, FreePids, TypeOK, Flow, Units, Unreaped,
        Registered
    <2>5. UnlockedRunsAreDropped'
      BY <1>3 DEF Spawn, Goto, FreePids, TypeOK, Flow, UnlockedRunsAreDropped,
        Running
    <2>6. NoChildSurvives'
      BY <1>3 DEF Spawn, Goto, FreePids, TypeOK, NoChildSurvives, Flow,
        Unreaped
    <2>7. RegistryIsExact'
      BY <1>3 DEF Spawn, Goto, FreePids, TypeOK, RegistryIsExact, Registered,
        Unreaped, Flow
    <2>8. KnownKillMisses'
      BY <1>3 DEF Spawn, Goto, FreePids, TypeOK, KnownKillMisses, Flow, Named,
        RegistryIsExact, Registered
    <2>9. OnlyBigInputsTimeOut'
      BY <1>3 DEF Spawn, Goto, FreePids, TypeOK, OnlyBigInputsTimeOut, Units,
        Flow
    <2> QED BY <2>1, <2>2, <2>3, <2>4, <2>5, <2>6, <2>7, <2>8, <2>9
  <1>4. ASSUME NEW c \in Cmds, SpawnFails(c) PROVE Inv'
    <2>1. TypeOK'
      BY <1>4 DEF SpawnFails, Outcome, Goto, TypeOK, Registered, Stages
    <2>2. Flow'
      BY <1>4 DEF SpawnFails, Outcome, Goto, TypeOK, Flow, Registered,
        Unreaped
    <2>3. Named'
      BY <1>4 DEF SpawnFails, Outcome, Goto, TypeOK, Named, Flow
    <2>4. Units'
      BY <1>4 DEF SpawnFails, Outcome, Goto, TypeOK, Flow, Units, Unreaped,
        Registered
    <2>5. UnlockedRunsAreDropped'
      BY <1>4 DEF SpawnFails, Outcome, Goto, TypeOK, Flow,
        UnlockedRunsAreDropped, Running
    <2>6. NoChildSurvives'
      BY <1>4 DEF SpawnFails, Outcome, Goto, TypeOK, NoChildSurvives, Flow,
        Unreaped
    <2>7. RegistryIsExact'
      BY <1>4 DEF SpawnFails, Outcome, Goto, TypeOK, RegistryIsExact,
        Registered, Unreaped, Flow
    <2>8. KnownKillMisses'
      BY <1>4 DEF SpawnFails, Outcome, Goto, TypeOK, KnownKillMisses, Flow,
        Named, RegistryIsExact, Registered
    <2>9. OnlyBigInputsTimeOut'
      BY <1>4 DEF SpawnFails, Outcome, Goto, TypeOK, OnlyBigInputsTimeOut,
        Units, Flow
    <2> QED BY <2>1, <2>2, <2>3, <2>4, <2>5, <2>6, <2>7, <2>8, <2>9
  <1>5. ASSUME NEW c \in Cmds, Enter(c) PROVE Inv'
    <2>1. TypeOK'
      BY <1>5 DEF Enter, Goto, Flow, Unreaped, TypeOK, Registered, Stages
    <2>2. Flow'
      BY <1>5 DEF Enter, Goto, TypeOK, Flow, Registered, Unreaped
    <2>3. Named'
      BY <1>5 DEF Enter, Goto, TypeOK, Named, Flow
    <2>4. Units'
      BY <1>5 DEF Enter, Goto, TypeOK, Flow, Units, Unreaped, Registered
    <2>5. UnlockedRunsAreDropped'
      BY <1>5 DEF Enter, Goto, TypeOK, Flow, UnlockedRunsAreDropped, Running
    <2>6. NoChildSurvives'
      BY <1>5 DEF Enter, Goto, TypeOK, NoChildSurvives, Flow, Unreaped
    <2>7. RegistryIsExact'
      BY <1>5 DEF Enter, Goto, TypeOK, RegistryIsExact, Registered, Unreaped,
        Flow
    <2>8. KnownKillMisses'
      BY <1>5 DEF Enter, Goto, TypeOK, KnownKillMisses, Flow, Named,
        RegistryIsExact, Registered
    <2>9. OnlyBigInputsTimeOut'
      BY <1>5 DEF Enter, Goto, TypeOK, OnlyBigInputsTimeOut, Units, Flow
    <2> QED BY <2>1, <2>2, <2>3, <2>4, <2>5, <2>6, <2>7, <2>8, <2>9
  <1>6. ASSUME NEW c \in Cmds, Feed(c) PROVE Inv'
    <2>1. TypeOK'
      BY <1>6 DEF Feed, HasReader, TypeOK, Registered, Stages
    <2>2. Flow'
      BY <1>6 DEF Feed, HasReader, TypeOK, Flow, Registered, Unreaped
    <2>3. Named'
      BY <1>6 DEF Feed, HasReader, TypeOK, Named, Flow
    <2>4. Units'
      <3>1. /\ unfed[c] \in Nat /\ inPipe[c] \in Nat /\ outPipe[c] \in Nat
            /\ ask[c] \in Requests /\ ask[c].size \in Nat
        BY <1>6 DEF Feed, TypeOK, Flow
      <3>2. (unfed[c] - 1) + (inPipe[c] + 1) + outPipe[c] = unfed[c] + inPipe[c] + outPipe[c]
        BY <3>1
      <3>3. /\ unfed'[c] = unfed[c] - 1 /\ inPipe'[c] = inPipe[c] + 1 /\ outPipe' = outPipe
            /\ \A d \in Cmds \ {c} : unfed'[d] = unfed[d] /\ inPipe'[d] = inPipe[d]
        BY <1>6 DEF Feed, TypeOK
      <3> QED BY <1>6, <3>2, <3>3 DEF Feed, Units
    <2>5. UnlockedRunsAreDropped'
      BY <1>6 DEF Feed, HasReader, TypeOK, Flow, UnlockedRunsAreDropped,
        Running
    <2>6. NoChildSurvives'
      BY <1>6 DEF Feed, HasReader, TypeOK, NoChildSurvives, Flow, Unreaped
    <2>7. RegistryIsExact'
      BY <1>6 DEF Feed, HasReader, TypeOK, RegistryIsExact, Registered,
        Unreaped, Flow
    <2>8. KnownKillMisses'
      BY <1>6 DEF Feed, HasReader, TypeOK, KnownKillMisses, Flow, Named,
        RegistryIsExact, Registered
    <2>9. OnlyBigInputsTimeOut'
      BY <1>6 DEF Feed, HasReader, TypeOK, OnlyBigInputsTimeOut, Units, Flow
    <2> QED BY <2>1, <2>2, <2>3, <2>4, <2>5, <2>6, <2>7, <2>8, <2>9
  <1>7. ASSUME NEW c \in Cmds, FeedFails(c) PROVE Inv'
    <2>1. TypeOK'
      BY <1>7 DEF FeedFails, HasReader, Abandon, Dropped, Outcome, Goto,
        TypeOK, Registered, Stages
    <2>2. Flow'
      BY <1>7 DEF FeedFails, HasReader, Abandon, Dropped, Outcome, Goto,
        TypeOK, Flow, Registered, Unreaped
    <2>3. Named'
      BY <1>7 DEF FeedFails, HasReader, Abandon, Dropped, Outcome, Goto,
        TypeOK, Named, Flow
    <2>4. Units'
      BY <1>7 DEF FeedFails, HasReader, Abandon, Dropped, Outcome, Goto,
        TypeOK, Flow, Units, Unreaped, Registered
    <2>5. UnlockedRunsAreDropped'
      BY <1>7 DEF FeedFails, HasReader, Abandon, Dropped, Outcome, Goto,
        TypeOK, Flow, UnlockedRunsAreDropped, Running
    <2>6. NoChildSurvives'
      BY <1>7 DEF FeedFails, HasReader, Abandon, Dropped, Outcome, Goto,
        TypeOK, NoChildSurvives, Flow, Unreaped
    <2>7. RegistryIsExact'
      BY <1>7 DEF FeedFails, HasReader, Abandon, Dropped, Outcome, Goto,
        TypeOK, RegistryIsExact, Registered, Unreaped, Flow
    <2>8. KnownKillMisses'
      BY <1>7 DEF FeedFails, HasReader, Abandon, Dropped, Outcome, Goto,
        TypeOK, KnownKillMisses, Flow, Named, RegistryIsExact, Registered
    <2>9. OnlyBigInputsTimeOut'
      BY <1>7 DEF FeedFails, HasReader, Abandon, Dropped, Outcome, Goto,
        TypeOK, OnlyBigInputsTimeOut, Units, Flow
    <2> QED BY <2>1, <2>2, <2>3, <2>4, <2>5, <2>6, <2>7, <2>8, <2>9
  <1>8. ASSUME NEW c \in Cmds, Fed(c) PROVE Inv'
    <2>1. TypeOK'
      BY <1>8 DEF Fed, Goto, TypeOK, Registered, Stages
    <2>2. Flow'
      BY <1>8 DEF Fed, Goto, TypeOK, Flow, Registered, Unreaped
    <2>3. Named'
      BY <1>8 DEF Fed, Goto, TypeOK, Named, Flow
    <2>4. Units'
      BY <1>8 DEF Fed, Goto, TypeOK, Flow, Units, Unreaped, Registered
    <2>5. UnlockedRunsAreDropped'
      BY <1>8 DEF Fed, Goto, TypeOK, Flow, UnlockedRunsAreDropped, Running
    <2>6. NoChildSurvives'
      BY <1>8 DEF Fed, Goto, TypeOK, NoChildSurvives, Flow, Unreaped
    <2>7. RegistryIsExact'
      BY <1>8 DEF Fed, Goto, TypeOK, RegistryIsExact, Registered, Unreaped,
        Flow
    <2>8. KnownKillMisses'
      BY <1>8 DEF Fed, Goto, TypeOK, KnownKillMisses, Flow, Named,
        RegistryIsExact, Registered
    <2>9. OnlyBigInputsTimeOut'
      BY <1>8 DEF Fed, Goto, TypeOK, OnlyBigInputsTimeOut, Units, Flow
    <2> QED BY <2>1, <2>2, <2>3, <2>4, <2>5, <2>6, <2>7, <2>8, <2>9
  <1>9. ASSUME NEW c \in Cmds, Drain(c) PROVE Inv'
    <2>1. TypeOK'
      BY <1>9 DEF Drain, TypeOK, Registered, Stages
    <2>2. Flow'
      BY <1>9 DEF Drain, TypeOK, Flow, Registered, Unreaped
    <2>3. Named'
      BY <1>9 DEF Drain, TypeOK, Named, Flow
    <2>4. Units'
      BY <1>9 DEF Drain, TypeOK, Flow, Units, Unreaped, Registered
    <2>5. UnlockedRunsAreDropped'
      BY <1>9 DEF Drain, TypeOK, Flow, UnlockedRunsAreDropped, Running
    <2>6. NoChildSurvives'
      BY <1>9 DEF Drain, TypeOK, NoChildSurvives, Flow, Unreaped
    <2>7. RegistryIsExact'
      BY <1>9 DEF Drain, TypeOK, RegistryIsExact, Registered, Unreaped, Flow
    <2>8. KnownKillMisses'
      BY <1>9 DEF Drain, TypeOK, KnownKillMisses, Flow, Named,
        RegistryIsExact, Registered
    <2>9. OnlyBigInputsTimeOut'
      BY <1>9 DEF Drain, TypeOK, OnlyBigInputsTimeOut, Units, Flow
    <2> QED BY <2>1, <2>2, <2>3, <2>4, <2>5, <2>6, <2>7, <2>8, <2>9
  <1>10. ASSUME NEW c \in Cmds, Reap(c) PROVE Inv'
    <2>1. TypeOK'
      BY <1>10 DEF Reap, Reaped, TypeOK, Registered, Stages
    <2>2. Flow'
      BY <1>10 DEF Reap, Reaped, TypeOK, Flow, Registered, Unreaped
    <2>3. Named'
      BY <1>10 DEF Reap, Reaped, TypeOK, Named, Flow
    <2>4. Units'
      BY <1>10 DEF Reap, Reaped, TypeOK, Flow, Units, Unreaped, Registered
    <2>5. UnlockedRunsAreDropped'
      BY <1>10 DEF Reap, Reaped, TypeOK, Flow, UnlockedRunsAreDropped, Running
    <2>6. NoChildSurvives'
      BY <1>10 DEF Reap, Reaped, TypeOK, NoChildSurvives, Flow, Unreaped
    <2>7. RegistryIsExact'
      BY <1>10 DEF Reap, Reaped, TypeOK, RegistryIsExact, Registered,
        Unreaped, Flow
    <2>8. KnownKillMisses'
      BY <1>10 DEF Reap, Reaped, TypeOK, KnownKillMisses, Flow, Named,
        RegistryIsExact, Registered
    <2>9. OnlyBigInputsTimeOut'
      BY <1>10 DEF Reap, Reaped, TypeOK, OnlyBigInputsTimeOut, Units, Flow
    <2> QED BY <2>1, <2>2, <2>3, <2>4, <2>5, <2>6, <2>7, <2>8, <2>9
  <1>11. ASSUME NEW c \in Cmds, Finish(c) PROVE Inv'
    <2>1. TypeOK'
      BY <1>11 DEF Finish, Outcome, Goto, TypeOK, Registered, Stages
    <2>2. Flow'
      BY <1>11 DEF Finish, Outcome, Goto, TypeOK, Flow, Registered, Unreaped
    <2>3. Named'
      BY <1>11 DEF Finish, Outcome, Goto, TypeOK, Named, Flow
    <2>4. Units'
      BY <1>11 DEF Finish, Outcome, Goto, TypeOK, Flow, Units, Unreaped,
        Registered
    <2>5. UnlockedRunsAreDropped'
      BY <1>11 DEF Finish, Outcome, Goto, TypeOK, Flow,
        UnlockedRunsAreDropped, Running
    <2>6. NoChildSurvives'
      BY <1>11 DEF Finish, Outcome, Goto, TypeOK, NoChildSurvives, Flow,
        Unreaped
    <2>7. RegistryIsExact'
      BY <1>11 DEF Finish, Outcome, Goto, TypeOK, RegistryIsExact, Registered,
        Unreaped, Flow
    <2>8. KnownKillMisses'
      BY <1>11 DEF Finish, Outcome, Goto, TypeOK, KnownKillMisses, Flow,
        Named, RegistryIsExact, Registered
    <2>9. OnlyBigInputsTimeOut'
      BY <1>11 DEF Finish, Outcome, Goto, TypeOK, OnlyBigInputsTimeOut, Units,
        Flow
    <2> QED BY <2>1, <2>2, <2>3, <2>4, <2>5, <2>6, <2>7, <2>8, <2>9
  <1>12. ASSUME NEW c \in Cmds, Timeout(c) PROVE Inv'
    <2>1. TypeOK'
      BY <1>12 DEF Timeout, TimedOut, Abandon, Dropped, Outcome, Goto, TypeOK,
        Registered, Stages
    <2>2. Flow'
      BY <1>12 DEF Timeout, TimedOut, Abandon, Dropped, Outcome, Goto, TypeOK,
        Flow, Registered, Unreaped
    <2>3. Named'
      BY <1>12 DEF Timeout, TimedOut, Abandon, Dropped, Outcome, Goto, TypeOK,
        Named, Flow
    <2>4. Units'
      BY <1>12 DEF Timeout, TimedOut, Abandon, Dropped, Outcome, Goto, TypeOK,
        Flow, Units, Unreaped, Registered
    <2>5. UnlockedRunsAreDropped'
      BY <1>12 DEF Timeout, TimedOut, Abandon, Dropped, Outcome, Goto, TypeOK,
        Flow, UnlockedRunsAreDropped, Running
    <2>6. NoChildSurvives'
      BY <1>12 DEF Timeout, TimedOut, Abandon, Dropped, Outcome, Goto, TypeOK,
        NoChildSurvives, Flow, Unreaped
    <2>7. RegistryIsExact'
      BY <1>12 DEF Timeout, TimedOut, Abandon, Dropped, Outcome, Goto, TypeOK,
        RegistryIsExact, Registered, Unreaped, Flow
    <2>8. KnownKillMisses'
      BY <1>12 DEF Timeout, TimedOut, Abandon, Dropped, Outcome, Goto, TypeOK,
        KnownKillMisses, Flow, Named, RegistryIsExact, Registered
    <2>9. OnlyBigInputsTimeOut'
      BY <1>12 DEF Timeout, TimedOut, Abandon, Dropped, Outcome, Goto,
        Blocked, Stuck, HasReader, EndOfInput, TypeOK, OnlyBigInputsTimeOut,
        Units, Flow
    <2> QED BY <2>1, <2>2, <2>3, <2>4, <2>5, <2>6, <2>7, <2>8, <2>9
  <1>13. ASSUME NEW c \in Cmds, Leave(c) PROVE Inv'
    <2>1. TypeOK'
      BY <1>13 DEF Leave, Goto, TypeOK, Registered, Stages
    <2>2. Flow'
      BY <1>13 DEF Leave, Goto, TypeOK, Flow, Registered, Unreaped
    <2>3. Named'
      BY <1>13 DEF Leave, Goto, TypeOK, Named, Flow
    <2>4. Units'
      BY <1>13 DEF Leave, Goto, TypeOK, Flow, Units, Unreaped, Registered
    <2>5. UnlockedRunsAreDropped'
      BY <1>13 DEF Leave, Goto, TypeOK, Flow, UnlockedRunsAreDropped, Running
    <2>6. NoChildSurvives'
      BY <1>13 DEF Leave, Goto, TypeOK, NoChildSurvives, Flow, Unreaped
    <2>7. RegistryIsExact'
      BY <1>13 DEF Leave, Goto, TypeOK, RegistryIsExact, Registered, Unreaped,
        Flow
    <2>8. KnownKillMisses'
      BY <1>13 DEF Leave, Goto, TypeOK, KnownKillMisses, Flow, Named,
        RegistryIsExact, Registered
    <2>9. OnlyBigInputsTimeOut'
      BY <1>13 DEF Leave, Goto, TypeOK, OnlyBigInputsTimeOut, Units, Flow
    <2> QED BY <2>1, <2>2, <2>3, <2>4, <2>5, <2>6, <2>7, <2>8, <2>9
  <1>14. ASSUME NEW c \in Cmds, Reply(c) PROVE Inv'
    <2>1. TypeOK'
      BY <1>14 DEF Reply, Goto, Unlock, TypeOK, Registered, Stages
    <2>2. Flow'
      BY <1>14 DEF Reply, Goto, Unlock, TypeOK, Flow, Registered, Unreaped
    <2>3. Named'
      BY <1>14 DEF Reply, Goto, Unlock, TypeOK, Named, Flow
    <2>4. Units'
      BY <1>14 DEF Reply, Goto, Unlock, TypeOK, Flow, Units, Unreaped,
        Registered
    <2>5. UnlockedRunsAreDropped'
      BY <1>14 DEF Reply, Goto, Unlock, TypeOK, Flow, UnlockedRunsAreDropped,
        Running
    <2>6. NoChildSurvives'
      BY <1>14 DEF Reply, Goto, Unlock, TypeOK, NoChildSurvives, Flow,
        Unreaped
    <2>7. RegistryIsExact'
      BY <1>14 DEF Reply, Goto, Unlock, TypeOK, RegistryIsExact, Registered,
        Unreaped, Flow
    <2>8. KnownKillMisses'
      BY <1>14 DEF Reply, Goto, Unlock, TypeOK, KnownKillMisses, Flow, Named,
        RegistryIsExact, Registered
    <2>9. OnlyBigInputsTimeOut'
      BY <1>14 DEF Reply, Goto, Unlock, TypeOK, OnlyBigInputsTimeOut, Units,
        Flow
    <2> QED BY <2>1, <2>2, <2>3, <2>4, <2>5, <2>6, <2>7, <2>8, <2>9
  <1>15. ASSUME NEW c \in Cmds, ReapOrphan(c) PROVE Inv'
    <2>1. TypeOK'
      BY <1>15 DEF ReapOrphan, Reaped, TypeOK, Registered, Stages
    <2>2. Flow'
      BY <1>15 DEF ReapOrphan, Reaped, TypeOK, Flow, Registered, Unreaped
    <2>3. Named'
      BY <1>15 DEF ReapOrphan, Reaped, TypeOK, Named, Flow
    <2>4. Units'
      BY <1>15 DEF ReapOrphan, Reaped, TypeOK, Flow, Units, Unreaped,
        Registered
    <2>5. UnlockedRunsAreDropped'
      BY <1>15 DEF ReapOrphan, Reaped, TypeOK, Flow, UnlockedRunsAreDropped,
        Running
    <2>6. NoChildSurvives'
      BY <1>15 DEF ReapOrphan, Reaped, TypeOK, NoChildSurvives, Flow, Unreaped
    <2>7. RegistryIsExact'
      BY <1>15 DEF ReapOrphan, Reaped, TypeOK, RegistryIsExact, Registered,
        Unreaped, Flow
    <2>8. KnownKillMisses'
      BY <1>15 DEF ReapOrphan, Reaped, TypeOK, KnownKillMisses, Flow, Named,
        RegistryIsExact, Registered
    <2>9. OnlyBigInputsTimeOut'
      BY <1>15 DEF ReapOrphan, Reaped, TypeOK, OnlyBigInputsTimeOut, Units,
        Flow
    <2> QED BY <2>1, <2>2, <2>3, <2>4, <2>5, <2>6, <2>7, <2>8, <2>9
  <1>16. ASSUME NEW c \in Cmds, Echo(c) PROVE Inv'
    <2>1. TypeOK'
      BY <1>16 DEF Echo, TypeOK, Registered, Stages
    <2>2. Flow'
      BY <1>16 DEF Echo, TypeOK, Flow, Registered, Unreaped
    <2>3. Named'
      BY <1>16 DEF Echo, TypeOK, Named, Flow
    <2>4. Units'
      <3>1. unfed[c] \in Nat /\ inPipe[c] \in Nat /\ outPipe[c] \in Nat
        BY <1>16 DEF Echo, TypeOK
      <3>2. unfed[c] + (inPipe[c] - 1) + (outPipe[c] + 1) = unfed[c] + inPipe[c] + outPipe[c]
        BY <3>1
      <3>3. /\ inPipe'[c] = inPipe[c] - 1 /\ outPipe'[c] = outPipe[c] + 1 /\ unfed' = unfed
            /\ \A d \in Cmds \ {c} : inPipe'[d] = inPipe[d] /\ outPipe'[d] = outPipe[d]
        BY <1>16 DEF Echo, TypeOK
      <3>4. pc[c] \notin {"off", "spawn"}
        BY <1>16 DEF Echo, Units, TypeOK
      <3> QED BY <1>16, <3>2, <3>3, <3>4 DEF Echo, Units
    <2>5. UnlockedRunsAreDropped'
      BY <1>16 DEF Echo, TypeOK, Flow, UnlockedRunsAreDropped, Running
    <2>6. NoChildSurvives'
      BY <1>16 DEF Echo, TypeOK, NoChildSurvives, Flow, Unreaped
    <2>7. RegistryIsExact'
      BY <1>16 DEF Echo, TypeOK, RegistryIsExact, Registered, Unreaped, Flow
    <2>8. KnownKillMisses'
      BY <1>16 DEF Echo, TypeOK, KnownKillMisses, Flow, Named,
        RegistryIsExact, Registered
    <2>9. OnlyBigInputsTimeOut'
      BY <1>16 DEF Echo, TypeOK, OnlyBigInputsTimeOut, Units, Flow
    <2> QED BY <2>1, <2>2, <2>3, <2>4, <2>5, <2>6, <2>7, <2>8, <2>9
  <1>17. ASSUME NEW c \in Cmds, Exit(c) PROVE Inv'
    <2>1. TypeOK'
      BY <1>17 DEF Exit, EndOfInput, TypeOK, Registered, Stages
    <2>2. Flow'
      BY <1>17 DEF Exit, EndOfInput, TypeOK, Flow, Registered, Unreaped
    <2>3. Named'
      BY <1>17 DEF Exit, EndOfInput, TypeOK, Named, Flow
    <2>4. Units'
      BY <1>17 DEF Exit, EndOfInput, NoChildSurvives, TypeOK, Flow, Units,
        Unreaped, Registered
    <2>5. UnlockedRunsAreDropped'
      BY <1>17 DEF Exit, EndOfInput, TypeOK, Flow, UnlockedRunsAreDropped,
        Running
    <2>6. NoChildSurvives'
      BY <1>17 DEF Exit, EndOfInput, TypeOK, NoChildSurvives, Flow, Unreaped
    <2>7. RegistryIsExact'
      BY <1>17 DEF Exit, EndOfInput, TypeOK, RegistryIsExact, Registered,
        Unreaped, Flow
    <2>8. KnownKillMisses'
      BY <1>17 DEF Exit, EndOfInput, TypeOK, KnownKillMisses, Flow, Named,
        RegistryIsExact, Registered
    <2>9. OnlyBigInputsTimeOut'
      BY <1>17 DEF Exit, EndOfInput, TypeOK, OnlyBigInputsTimeOut, Units, Flow
    <2> QED BY <2>1, <2>2, <2>3, <2>4, <2>5, <2>6, <2>7, <2>8, <2>9
  <1>18. ASSUME NEW k \in Kills, NEW c \in Cmds, SendKill(k, c) PROVE Inv'
    <2>1. TypeOK'
      BY <1>18 DEF SendKill, TypeOK, Registered, Stages
    <2>2. Flow'
      BY <1>18 DEF SendKill, TypeOK, Flow, Registered, Unreaped
    <2>3. Named'
      <3>1. /\ kill'[k].id = c /\ (kill'[k].told => pc[c] = "done") /\ pc' = pc
            /\ \A j \in Kills \ {k} : kill'[j] = kill[j]
        BY <1>18 DEF SendKill, TypeOK, Flow
      <3> QED
        BY ONLY <1>18, <3>1, Inv DEF Inv, Named
    <2>4. Units'
      BY <1>18 DEF SendKill, TypeOK, Flow, Units, Unreaped, Registered
    <2>5. UnlockedRunsAreDropped'
      BY <1>18 DEF SendKill, TypeOK, Flow, UnlockedRunsAreDropped, Running
    <2>6. NoChildSurvives'
      BY <1>18 DEF SendKill, TypeOK, NoChildSurvives, Flow, Unreaped
    <2>7. RegistryIsExact'
      BY <1>18 DEF SendKill, TypeOK, RegistryIsExact, Registered, Unreaped,
        Flow
    <2>8. KnownKillMisses'
      BY <1>18 DEF SendKill, TypeOK, KnownKillMisses, Flow, Named,
        RegistryIsExact, Registered
    <2>9. OnlyBigInputsTimeOut'
      BY <1>18 DEF SendKill, TypeOK, OnlyBigInputsTimeOut, Units, Flow
    <2> QED BY <2>1, <2>2, <2>3, <2>4, <2>5, <2>6, <2>7, <2>8, <2>9
  <1>19. ASSUME NEW k \in Kills, DropKill(k) PROVE Inv'
    <2>1. TypeOK'
      BY <1>19 DEF DropKill, TypeOK, Registered, Stages
    <2>2. Flow'
      BY <1>19 DEF DropKill, TypeOK, Flow, Registered, Unreaped
    <2>3. Named'
      BY <1>19 DEF DropKill, TypeOK, Named, Flow
    <2>4. Units'
      BY <1>19 DEF DropKill, TypeOK, Flow, Units, Unreaped, Registered
    <2>5. UnlockedRunsAreDropped'
      BY <1>19 DEF DropKill, TypeOK, Flow, UnlockedRunsAreDropped, Running
    <2>6. NoChildSurvives'
      BY <1>19 DEF DropKill, TypeOK, NoChildSurvives, Flow, Unreaped
    <2>7. RegistryIsExact'
      BY <1>19 DEF DropKill, TypeOK, RegistryIsExact, Registered, Unreaped,
        Flow
    <2>8. KnownKillMisses'
      BY <1>19 DEF DropKill, TypeOK, KnownKillMisses, Flow, Named,
        RegistryIsExact, Registered
    <2>9. OnlyBigInputsTimeOut'
      BY <1>19 DEF DropKill, TypeOK, OnlyBigInputsTimeOut, Units, Flow
    <2> QED BY <2>1, <2>2, <2>3, <2>4, <2>5, <2>6, <2>7, <2>8, <2>9
  <1>20. ASSUME NEW k \in Kills, Lookup(k) PROVE Inv'
    <2>1. TypeOK'
      <3> DEFINE id == kill[k].id
      <3>1. CASE id \in Registered
        <4>1. registry[id] \in Pids
          BY <3>1 DEF TypeOK
        <4>2. kill' = [kill EXCEPT ![k] = [@ EXCEPT !.at = "found", !.pid = registry[id]]]
          BY <1>20, <3>1 DEF Lookup
        <4>3. [kill[k] EXCEPT !.at = "found", !.pid = registry[id]]
                \in [at : {"idle", "sent", "found", "done"}, id : Cmds \cup {None},
                     pid : Pids \cup {None}, told : BOOLEAN]
          <5>1. kill[k] \in [at : {"idle", "sent", "found", "done"}, id : Cmds \cup {None},
                            pid : Pids \cup {None}, told : BOOLEAN]
            BY DEF TypeOK
          <5> HIDE DEF id
          <5> QED BY <4>1, <5>1
        <4>4. kill' \in [Kills -> [at : {"idle", "sent", "found", "done"},
                id : Cmds \cup {None}, pid : Pids \cup {None}, told : BOOLEAN]]
          BY <4>2, <4>3 DEF TypeOK
        <4> QED BY <1>20, <3>1, <4>4 DEF Lookup, TypeOK, Registered, Stages
      <3>2. CASE id \notin Registered
        BY <1>20, <3>2 DEF Lookup, Unlock, Done, Idle, TypeOK, Registered, Stages
      <3> QED BY <3>1, <3>2
    <2>2. Flow'
      BY <1>20 DEF Lookup, Unlock, Done, Idle, TypeOK, Flow, Registered,
        Unreaped
    <2>3. Named'
      BY <1>20 DEF Lookup, Unlock, Done, Idle, TypeOK, Named, Flow
    <2>4. Units'
      BY <1>20 DEF Lookup, Unlock, Done, Idle, TypeOK, Flow, Units, Unreaped,
        Registered
    <2>5. UnlockedRunsAreDropped'
      BY <1>20 DEF Lookup, Unlock, Done, Idle, TypeOK, Flow,
        UnlockedRunsAreDropped, Running
    <2>6. NoChildSurvives'
      BY <1>20 DEF Lookup, Unlock, Done, Idle, TypeOK, NoChildSurvives, Flow,
        Unreaped
    <2>7. RegistryIsExact'
      BY <1>20 DEF Lookup, Unlock, Done, Idle, TypeOK, RegistryIsExact,
        Registered, Unreaped, Flow
    <2>8. KnownKillMisses'
      BY <1>20 DEF Lookup, Unlock, Done, Idle, TypeOK, KnownKillMisses, Flow,
        Named, RegistryIsExact, Registered
    <2>9. OnlyBigInputsTimeOut'
      BY <1>20 DEF Lookup, Unlock, Done, Idle, TypeOK, OnlyBigInputsTimeOut,
        Units, Flow
    <2> QED BY <2>1, <2>2, <2>3, <2>4, <2>5, <2>6, <2>7, <2>8, <2>9
  <1>21. ASSUME NEW k \in Kills, Signal(k) PROVE Inv'
    <2>1. TypeOK'
      BY <1>21 DEF Signal, Unlock, Done, Idle, Holding, TypeOK, Registered,
        Stages
    <2>2. Flow'
      BY <1>21 DEF Signal, Unlock, Done, Idle, Holding, TypeOK, Flow,
        Registered, Unreaped
    <2>3. Named'
      BY <1>21 DEF Signal, Unlock, Done, Idle, Holding, TypeOK, Named, Flow
    <2>4. Units'
      BY <1>21 DEF Signal, Unlock, Done, Idle, Holding, TypeOK, Flow, Units,
        Unreaped, Registered
    <2>5. UnlockedRunsAreDropped'
      BY <1>21 DEF Signal, Unlock, Done, Idle, Holding, TypeOK, Flow,
        UnlockedRunsAreDropped, Running
    <2>6. NoChildSurvives'
      BY <1>21 DEF Signal, Unlock, Done, Idle, Holding, TypeOK,
        NoChildSurvives, Flow, Unreaped
    <2>7. RegistryIsExact'
      BY <1>21 DEF Signal, Unlock, Done, Idle, Holding, TypeOK,
        RegistryIsExact, Registered, Unreaped, Flow
    <2>8. KnownKillMisses'
      BY <1>21 DEF Signal, Unlock, Done, Idle, Holding, TypeOK,
        KnownKillMisses, Flow, Named, RegistryIsExact, Registered
    <2>9. OnlyBigInputsTimeOut'
      BY <1>21 DEF Signal, Unlock, Done, Idle, Holding, TypeOK,
        OnlyBigInputsTimeOut, Units, Flow
    <2> QED BY <2>1, <2>2, <2>3, <2>4, <2>5, <2>6, <2>7, <2>8, <2>9
  <1>22. CASE UNCHANGED vars
    BY <1>22 DEF vars, TypeOK, Flow, Named, Units, UnlockedRunsAreDropped, Running,
      NoChildSurvives, RegistryIsExact, Registered, Unreaped, KnownKillMisses,
      OnlyBigInputsTimeOut
  <1> QED
    BY <1>1, <1>2, <1>3, <1>4, <1>5, <1>6, <1>7, <1>8, <1>9, <1>10, <1>11,
      <1>12, <1>13, <1>14, <1>15, <1>16, <1>17, <1>18, <1>19, <1>20, <1>21, <1>22
    DEF Next, RunStep, ProgramStep, KillStep

(* Inv is an invariant.                                                    *)
THEOREM Invariance == Spec => []Inv
  BY Start, Step, PTL DEF Spec

(* The types hold.                                                         *)
THEOREM TypeCorrect == Spec => []TypeOK
  BY Invariance, PTL DEF Inv

(* However many commands and kills there are, a kill that names a command  *)
(* its caller was told of signals nothing.                                 *)
THEOREM KnownKillsMiss == Spec => []KnownKillMisses
  BY Invariance, PTL DEF Inv

(* RUNNING_COMMANDS names the children of the runs between their insert    *)
(* and their remove, and nothing else.                                     *)
THEOREM RegistryCorrect == Spec => []RegistryIsExact
  BY Invariance, PTL DEF Inv

(* The record lock serialises the commands whose callers are still there.  *)
THEOREM LockedRunsAlone == Spec => []UnlockedRunsAreDropped
  BY Invariance, PTL DEF Inv

(* No direct child outlives its run.                                       *)
THEOREM ChildrenDie == Spec => []NoChildSurvives
  BY Invariance, PTL DEF Inv

(* For every size of the pipes, a filter whose input fits into both is     *)
(* never cut off by a timeout that is long enough.                         *)
THEOREM SmallInputsPass == Spec => []OnlyBigInputsTimeOut
  BY Invariance, PTL DEF Inv
=============================================================================
