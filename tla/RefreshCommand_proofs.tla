------------------------- MODULE RefreshCommand_proofs -------------------------
(***************************************************************************)
(* For any number of daemons and commands: the pid file names the daemon   *)
(* that runs if daemons exclude each other, and never mixes two pids then; *)
(* and a refresh that succeeds has not seen the token of an earlier one.   *)
(***************************************************************************)
EXTENDS RefreshCommand, TLAPS

\* A pid is in the file only if its daemon wrote it, and none has before its
\* own PersistentPreRun is through.
WrittenInv ==
  /\ \A p \in Daemons : pidFile = p => p \in wrotePid
  /\ \A p \in Daemons : life[p] \in {"off", "create", "write"} => p \notin wrotePid

\* One daemon at a time writes to an empty file.
ExclusiveInv ==
  alone =>
    /\ \A p, q \in Daemons : Alive(p) /\ Alive(q) => p = q
    /\ pidFile # "torn"
    /\ \A p \in open : pidFile = "empty"

\* A daemon that is alone has its file open until its pid is in it, or until
\* it gives up writing it.
FindableInv ==
  alone =>
    /\ \A p \in Daemons : life[p] = "write" => p \in open
    /\ \A p \in Daemons : p \in wrotePid /\ life[p] \in Running => pidFile = p

PidInv == PidTypeOK /\ WrittenInv /\ ExclusiveInv /\ FindableInv

\* The type of everything that is not a pid variable.
RestTypeOK ==
  /\ token \in Contents /\ issued \subseteq Tokens /\ writing \subseteq Daemons
  /\ command \in [Commands -> {"read", "signal", "initial", "poll", "postrun",
                               "done", "failed", "timeout"}]
  /\ target \in [Commands -> Daemons \union Strays \union {"none"}]
  /\ initial \in [Commands -> Contents] /\ seen \in [Commands -> Contents \union {"none"}]
  /\ fresh \subseteq Commands /\ killed \subseteq Daemons /\ strays \subseteq Strays

\* A command knows no number but a daemon's or the part of one.
TargetInv ==
  alone => /\ \A c \in Commands : target[c] # "torn"
           /\ "torn" \notin strays

RefreshInv == PidInv /\ RestTypeOK /\ TargetInv

-------------------------------------------------------------------------------
\* What every action on a daemon's life leaves behind.
LEMMA GoesLife ==
  ASSUME PidTypeOK, NEW p \in Daemons, NEW from, NEW to, Goes(p, from, to)
  PROVE  /\ life[p] = from /\ life'[p] = to
         /\ \A q \in Daemons : q # p => life'[q] = life[q]
         /\ alone' \in BOOLEAN
         /\ alone' => alone /\ (from = "off" => \A q \in Daemons : ~Alive(q))
BY DEF PidTypeOK, Goes

\* A step in which a daemon moves on and the file, the descriptors and the
\* memory of having written are left alone.
LEMMA MoveStep ==
  ASSUME PidInv, NEW p \in Daemons, NEW from, NEW to, Goes(p, from, to),
         UNCHANGED <<pidFile, open, wrotePid>>,
         from # "write",
         to \in Running \union {"create", "gone"},
         from \in {"off", "create"} => to \in {"create", "gone"},
         from \notin {"off", "create"} => to \in Running \union {"gone"},
         to \in Running => from \in Running,
         from \notin Over
  PROVE  PidInv'
<1> USE DEF PidInv
<1>1. /\ life[p] = from /\ life'[p] = to
      /\ \A q \in Daemons : q # p => life'[q] = life[q]
      /\ alone' \in BOOLEAN
      /\ alone' => alone /\ (from = "off" => \A q \in Daemons : ~Alive(q))
  BY GoesLife
<1>2. PidTypeOK'
  BY <1>1 DEF PidTypeOK, Goes, Over, Running
<1>3. WrittenInv'
  BY <1>1 DEF WrittenInv, Over, Running
<1>4. ExclusiveInv'
  BY <1>1 DEF ExclusiveInv, Alive, Over, Running
<1>5. FindableInv'
  BY <1>1 DEF FindableInv, Over, Running
<1>6. QED
  BY <1>2, <1>3, <1>4, <1>5

LEMMA MovesKeep ==
  ASSUME PidInv, NEW p \in Daemons,
         \/ Launch(p) \/ PreRunFails(p) \/ Notify(p) \/ BootFails(p) \/ Serve(p)
         \/ Terminate(p) \/ Stopped(p)
  PROVE  PidInv'
<1> USE DEF Running, Over
<1>1. CASE Launch(p)
  BY <1>1, MoveStep DEF Launch
<1>2. CASE PreRunFails(p)
  BY <1>2, MoveStep DEF PreRunFails
<1>3. CASE Notify(p)
  BY <1>3, MoveStep DEF Notify
<1>4. CASE BootFails(p)
  BY <1>4, MoveStep DEF BootFails
<1>5. CASE Serve(p)
  BY <1>5, MoveStep DEF Serve
<1>6. CASE Terminate(p)
  BY <1>6, MoveStep DEF Terminate
<1>7. CASE Stopped(p)
  BY <1>7, MoveStep DEF Stopped
<1>8. QED
  BY <1>1, <1>2, <1>3, <1>4, <1>5, <1>6, <1>7

LEMMA CreateKeeps ==
  ASSUME PidInv, NEW p \in Daemons, CreatePid(p)
  PROVE  PidInv'
<1> USE PidFileAssumption DEF PidInv
<1>1. /\ life[p] = "create" /\ life'[p] = "write"
      /\ \A q \in Daemons : q # p => life'[q] = life[q]
      /\ alone' \in BOOLEAN /\ (alone' => alone)
  BY GoesLife DEF CreatePid
<1>2. pidFile' = "empty" /\ open' = open \union {p} /\ wrotePid' = wrotePid
  BY DEF CreatePid
<1>3. PidTypeOK'
  BY <1>1, <1>2 DEF PidTypeOK, CreatePid, Goes
<1>4. WrittenInv'
  BY <1>1, <1>2 DEF WrittenInv
<1>5. ExclusiveInv'
  BY <1>1, <1>2 DEF ExclusiveInv, Alive, Over
<1>6. FindableInv'
  BY <1>1, <1>2 DEF FindableInv, ExclusiveInv, Alive, Over, Running
<1>7. QED
  BY <1>3, <1>4, <1>5, <1>6

LEMMA WriteKeeps ==
  ASSUME PidInv, NEW p \in Daemons, WritePid(p)
  PROVE  PidInv'
<1> USE PidFileAssumption DEF PidInv
<1>1. /\ life[p] = "write" /\ life'[p] = "start"
      /\ \A q \in Daemons : q # p => life'[q] = life[q]
      /\ alone' \in BOOLEAN /\ (alone' => alone)
  BY GoesLife DEF WritePid
<1>2. /\ pidFile' \in {pidFile, p, "torn"}
      /\ open' = open \ {p} /\ wrotePid' = wrotePid \union {p}
  BY DEF WritePid
<1>3. PidTypeOK'
  BY <1>1, <1>2 DEF PidTypeOK, WritePid, Goes, Running, Strays
<1>4. WrittenInv'
  BY <1>1, <1>2 DEF WrittenInv
<1>5. alone' => /\ pidFile' # "torn"
                /\ p \in open => pidFile' = p
                /\ open' = {}
  BY <1>1 DEF ExclusiveInv, PidTypeOK, Alive, Over, WritePid
<1>6. ExclusiveInv'
  BY <1>1, <1>5 DEF ExclusiveInv, Alive, Over
<1>7. FindableInv'
  BY <1>1, <1>5 DEF FindableInv, ExclusiveInv, Alive, Over, Running
<1>8. QED
  BY <1>3, <1>4, <1>6, <1>7

LEMMA PidFailsKeeps ==
  ASSUME PidInv, NEW p \in Daemons, CreatePidFails(p) \/ WritePidFails(p)
  PROVE  PidInv'
<1> USE PidFileAssumption DEF PidInv, Strays
<1>1. /\ life[p] \in {"create", "write"} /\ life'[p] = "start"
      /\ \A q \in Daemons : q # p => life'[q] = life[q]
      /\ alone' \in BOOLEAN /\ (alone' => alone)
  BY GoesLife DEF CreatePidFails, WritePidFails
<1>2. /\ pidFile' \in {pidFile, "part", "torn"}
      /\ pidFile' = "part" => (p \in open /\ pidFile = "empty") \/ pidFile = "part"
      /\ pidFile' = "torn" => (p \in open /\ pidFile # "empty") \/ pidFile = "torn"
      /\ open' = open \ {p} /\ wrotePid' = wrotePid
  BY DEF CreatePidFails, WritePidFails, PidTypeOK, Goes
<1>3. PidTypeOK'
  BY <1>1, <1>2 DEF PidTypeOK, CreatePidFails, WritePidFails, Goes, Running
<1>4. WrittenInv'
  BY <1>1, <1>2 DEF WrittenInv
<1>5. ExclusiveInv'
  <2>1. alone => \A q \in open : q = p
    BY <1>1 DEF ExclusiveInv, PidTypeOK, Alive, Over
  <2>2. alone' => pidFile' # "torn" /\ \A q \in open' : pidFile' = "empty"
    BY <1>1, <1>2, <2>1 DEF ExclusiveInv
  <2>3. QED
    BY <1>1, <2>2 DEF ExclusiveInv, Alive, Over
<1>6. FindableInv'
  BY <1>1, <1>2 DEF FindableInv, WrittenInv, ExclusiveInv, Alive, Over, Running
<1>7. QED
  BY <1>3, <1>4, <1>5, <1>6

LEMMA RemoveKeeps ==
  ASSUME PidInv, NEW p \in Daemons, Remove(p)
  PROVE  PidInv'
<1> USE PidFileAssumption DEF PidInv
<1>1. /\ life[p] = "remove" /\ life'[p] = "ended"
      /\ \A q \in Daemons : q # p => life'[q] = life[q]
      /\ alone' \in BOOLEAN /\ (alone' => alone)
  BY GoesLife DEF Remove
<1>2. /\ wrotePid' = wrotePid
      /\ (pidFile' = "absent" /\ open' = {}) \/ UNCHANGED <<pidFile, open>>
  BY DEF Remove, PostRun
<1>3. PidTypeOK'
  BY <1>1, <1>2 DEF PidTypeOK, Remove, Goes, Over
<1>4. WrittenInv'
  BY <1>1, <1>2 DEF WrittenInv
<1>5. ExclusiveInv'
  BY <1>1, <1>2 DEF ExclusiveInv, Alive, Over
<1>6. FindableInv'
  BY <1>1, <1>2 DEF FindableInv, ExclusiveInv, Alive, Over, Running
<1>7. QED
  BY <1>3, <1>4, <1>5, <1>6

LEMMA KilledKeeps ==
  ASSUME PidInv, NEW p \in Daemons, Killed(p)
  PROVE  PidInv'
<1> USE PidFileAssumption DEF PidInv
<1>1. /\ Alive(p) /\ life'[p] = "gone"
      /\ \A q \in Daemons : q # p => life'[q] = life[q]
  BY DEF Killed, PidTypeOK
<1>2. pidFile' = pidFile /\ open' = open \ {p} /\ wrotePid' = wrotePid /\ alone' = alone
  BY DEF Killed
<1>3. PidTypeOK'
  BY <1>1, <1>2 DEF PidTypeOK, Killed, Over
<1>4. WrittenInv'
  BY <1>1, <1>2 DEF WrittenInv
<1>5. ExclusiveInv'
  BY <1>1, <1>2 DEF ExclusiveInv, Alive, Over
<1>6. FindableInv'
  BY <1>1, <1>2 DEF FindableInv, Running
<1>7. QED
  BY <1>3, <1>4, <1>5, <1>6

LEMMA PidSame ==
  ASSUME PidInv, UNCHANGED pidVars
  PROVE  PidInv'
BY DEF pidVars, PidInv, PidTypeOK, WrittenInv, ExclusiveInv,
   FindableInv, Alive

\* A refresh command has not written the file and does not remove it.
LEMMA PostRunKeeps ==
  ASSUME PidInv, NEW c \in Commands, PostRun(c), UNCHANGED <<life, alone>>
  PROVE  PidInv'
<1>1. c \notin wrotePid
  BY RefreshAssumption DEF PidInv, PidTypeOK
<1>2. UNCHANGED pidVars
  BY <1>1 DEF PostRun, pidVars
<1>3. QED
  BY <1>2, PidSame

LEMMA PidStepKeeps ==
  ASSUME PidInv, NEW p \in Daemons, PidStep(p)
  PROVE  PidInv'
BY MovesKeep, CreateKeeps, WriteKeeps, PidFailsKeeps, RemoveKeeps DEF PidStep

\* Daemons that were alive at once have been so ever after.
LEMMA AloneOnce ==
  ASSUME NEW p \in Daemons, PidStep(p) \/ Killed(p)
  PROVE  alone' => alone
BY DEF PidStep, Killed, Launch, PreRunFails, CreatePid, WritePid, CreatePidFails,
   WritePidFails, Notify, BootFails, Serve, Terminate, Stopped, Remove, Goes

-------------------------------------------------------------------------------
LEMMA InitRefresh == Init => RefreshInv
<1> SUFFICES ASSUME Init
             PROVE  RefreshInv
  OBVIOUS
<1> USE PidFileAssumption
<1>1. PidTypeOK
  BY DEF Init, PidInit, PidTypeOK
<1>2. WrittenInv
  BY DEF Init, PidInit, WrittenInv
<1>3. ExclusiveInv /\ FindableInv
  BY DEF Init, PidInit, ExclusiveInv, FindableInv, Alive, Running
<1>4. RestTypeOK
  BY DEF Init, RestTypeOK, Contents
<1>5. TargetInv
  BY DEF Init, TargetInv
<1>6. QED
  BY <1>1, <1>2, <1>3, <1>4, <1>5 DEF RefreshInv, PidInv

LEMMA DaemonActions ==
  ASSUME RefreshInv, NEW p \in Daemons,
         DaemonStep(p) \/ Crash(p) \/ CreateToken(p) \/ CopyToken(p)
  PROVE  RefreshInv'
<1> USE DEF RefreshInv, RestTypeOK, TargetInv, commandVars, Contents
<1>1. CASE DaemonStep(p)
  BY <1>1, PidStepKeeps, AloneOnce DEF DaemonStep
<1>2. CASE Crash(p)
  BY <1>2, KilledKeeps, AloneOnce DEF Crash
<1>3. CASE CreateToken(p)
  BY <1>3, PidSame DEF CreateToken, pidVars
<1>4. CASE CopyToken(p)
  BY <1>4, PidSame DEF CopyToken, pidVars
<1>5. QED
  BY <1>1, <1>2, <1>3, <1>4

LEMMA AtType ==
  ASSUME RestTypeOK, NEW c \in Commands, NEW from,
         NEW to \in {"read", "signal", "initial", "poll", "postrun", "done",
                     "failed", "timeout"},
         At(c, from, to)
  PROVE  command' \in [Commands -> {"read", "signal", "initial", "poll", "postrun",
                                    "done", "failed", "timeout"}]
BY DEF RestTypeOK, At

LEMMA SignalledType ==
  ASSUME RestTypeOK, NEW c \in Commands, Signalled(c)
  PROVE  command' \in [Commands -> {"read", "signal", "initial", "poll", "postrun",
                                    "done", "failed", "timeout"}]
BY AtType DEF Signalled

LEMMA CommandActions ==
  ASSUME RefreshInv, NEW c \in Commands, CommandStep(c)
  PROVE  RefreshInv'
<1> USE PidFileAssumption DEF RefreshInv
<1>1. CASE NoPid(c)
  BY <1>1, PidSame, AtType DEF NoPid, RestTypeOK, TargetInv, pidVars, tokenVars
<1>2. CASE ReadPid(c)
  <2>1. pidFile \in Daemons \union Strays /\ (alone => pidFile # "torn")
    BY <1>2 DEF ReadPid, PidInv, PidTypeOK, ExclusiveInv
  <2>2. TargetInv'
    BY <1>2, <2>1 DEF ReadPid, TargetInv, RestTypeOK, pidVars
  <2>3. PidInv'
    BY <1>2, PidSame DEF ReadPid
  <2>4. RestTypeOK'
    BY <1>2, <2>1, AtType DEF ReadPid, RestTypeOK, tokenVars
  <2>5. QED
    BY <2>2, <2>3, <2>4
<1>3. CASE SignalDaemon(c)
  BY <1>3, PidSame, SignalledType DEF SignalDaemon, RestTypeOK, TargetInv, pidVars, tokenVars
<1>4. CASE SignalKills(c)
  <2>1. PICK p \in Daemons : Killed(p) /\ writing' = writing \ {p} /\ killed' = killed \union {p}
    BY <1>4 DEF SignalKills
  <2>2. PidInv'
    BY <2>1, KilledKeeps
  <2>3. RestTypeOK'
    BY <1>4, <2>1, SignalledType DEF SignalKills, RestTypeOK
  <2>4. TargetInv'
    BY <1>4, <2>1, AloneOnce DEF SignalKills, TargetInv
  <2>5. QED
    BY <2>2, <2>3, <2>4
<1>5. CASE SignalFails(c)
  BY <1>5, PidSame, AtType DEF SignalFails, RestTypeOK, TargetInv, pidVars, tokenVars
<1>6. CASE SignalStrays(c)
  <2>1. PidInv'
    BY <1>6, PidSame DEF SignalStrays
  <2>2. command' \in [Commands -> {"read", "signal", "initial", "poll", "postrun",
                                   "done", "failed", "timeout"}]
    BY <1>6, SignalledType, AtType DEF SignalStrays
  <2>3. RestTypeOK'
    BY <1>6, <2>2 DEF SignalStrays, RestTypeOK, tokenVars
  <2>4. TargetInv'
    BY <1>6 DEF SignalStrays, TargetInv, pidVars
  <2>5. QED
    BY <2>1, <2>3, <2>4
<1>7. CASE ReadInitial(c)
  BY <1>7, PidSame, AtType DEF ReadInitial, RestTypeOK, TargetInv, pidVars, tokenVars
<1>8. CASE Changed(c)
  BY <1>8, PidSame, AtType DEF Changed, RestTypeOK, TargetInv, pidVars, tokenVars
<1>9. CASE TimeOut(c)
  BY <1>9, PidSame, AtType DEF TimeOut, RestTypeOK, TargetInv, pidVars, tokenVars
<1>10. CASE CommandPostRun(c)
  BY <1>10, PostRunKeeps, AtType DEF CommandPostRun, RestTypeOK, TargetInv, pidVars, tokenVars
<1>11. CASE CheckFails(c)
  BY <1>11, PidSame, AtType DEF CheckFails, RestTypeOK, TargetInv, pidVars, tokenVars
<1>12. QED
  BY <1>1, <1>2, <1>3, <1>4, <1>5, <1>6, <1>7, <1>8, <1>9, <1>10, <1>11 DEF CommandStep

LEMMA RefreshStep ==
  ASSUME RefreshInv, [Next]_vars
  PROVE  RefreshInv'
<1>1. CASE Next
  BY <1>1, DaemonActions, CommandActions DEF Next
<1>2. CASE UNCHANGED vars
  BY <1>2, PidSame DEF vars, pidVars, tokenVars, commandVars, RefreshInv, RestTypeOK, TargetInv
<1>3. QED
  BY <1>1, <1>2

\* The inductive invariant of the daemons, their files and the commands.
THEOREM RefreshInvHolds == Spec => []RefreshInv
<1>1. RefreshInv /\ [Next]_vars => RefreshInv'
  BY RefreshStep
<1>2. QED
  BY InitRefresh, <1>1, PTL DEF Spec

\* The types of the daemons and the commands, and that the pid file is only
\* held open by a daemon that is writing it.
THEOREM RefreshTypeCorrect == Spec => []TypeOK
<1>1. RefreshInv => TypeOK
  BY DEF RefreshInv, PidInv, RestTypeOK, TypeOK
<1>2. QED
  BY RefreshInvHolds, <1>1, PTL

\* With one daemon at a time, a running daemon that has written the pid file is
\* named by it, whatever daemons before it left behind.
THEOREM RunningDaemonIsFound == Spec => []RunningIsFindable
<1>1. RefreshInv => RunningIsFindable
  BY DEF RefreshInv, PidInv, PidTypeOK, FindableInv, RunningIsFindable
<1>2. QED
  BY RefreshInvHolds, <1>1, PTL

\* With one daemon at a time no signal goes to a mixture of two pids, even if
\* files fail to be created, written and removed.
THEOREM NoStraySignal == Spec => []OnlyDaemonsSignalled
<1>1. RefreshInv => OnlyDaemonsSignalled
  BY DEF RefreshInv, RestTypeOK, Strays, TargetInv, OnlyDaemonsSignalled
<1>2. QED
  BY RefreshInvHolds, <1>1, PTL

-------------------------------------------------------------------------------
(* What the success of refresh --wait says.                                *)

\* While nothing was written since it began to poll, the file is as the command
\* found it, or truncated.
PollInv ==
  \A c \in Commands :
    command[c] = "poll" /\ c \notin fresh => token \in {initial[c], "empty"}

LEMMA CommandSees ==
  ASSUME RestTypeOK, PollInv, NoStaleSuccess, NEW c \in Commands, CommandStep(c)
  PROVE  PollInv' /\ NoStaleSuccess'
<1> USE DEF RestTypeOK, PollInv, NoStaleSuccess
<1>1. token' = token /\ fresh' = fresh
  BY DEF CommandStep, NoPid, ReadPid, SignalDaemon, SignalKills, SignalFails,
     SignalStrays, ReadInitial, Changed, CheckFails, TimeOut, CommandPostRun,
     tokenVars
<1>2. CASE ReadInitial(c)
  BY <1>1, <1>2 DEF ReadInitial, At
<1>3. CASE Changed(c)
  <2>1. /\ token \in {initial[c], "empty"} \/ c \in fresh
        /\ token # initial[c] /\ seen'[c] = token
        /\ \A d \in Commands : d # c => seen'[d] = seen[d]
    BY <1>3 DEF Changed, At
  <2>2. PollInv'
    BY <1>1, <1>3 DEF Changed, At
  <2> QED BY <1>1, <2>1, <2>2
<1>4. CASE ~ReadInitial(c) /\ ~Changed(c)
  <2>1. UNCHANGED <<initial, seen>>
    BY <1>4
    DEF CommandStep, NoPid, ReadPid, SignalDaemon, SignalKills, SignalFails,
        SignalStrays, CheckFails, TimeOut, CommandPostRun
  <2>2. \A d \in Commands : command'[d] = "poll" => command[d] = "poll"
    BY <1>4
    DEF CommandStep, NoPid, ReadPid, SignalDaemon, SignalKills, SignalFails,
        SignalStrays, Signalled, CheckFails, TimeOut, CommandPostRun, At
  <2> QED BY <1>1, <2>1, <2>2
<1> QED BY <1>2, <1>3, <1>4

LEMMA DaemonWrites ==
  ASSUME RestTypeOK, PollInv, NoStaleSuccess, NEW p \in Daemons,
         DaemonStep(p) \/ Crash(p) \/ CreateToken(p) \/ CopyToken(p)
  PROVE  PollInv' /\ NoStaleSuccess'
<1> USE DEF RestTypeOK, PollInv, NoStaleSuccess, commandVars
<1>1. CASE DaemonStep(p) \/ Crash(p)
  BY <1>1 DEF DaemonStep, Crash
<1>2. CASE CreateToken(p)
  BY <1>2 DEF CreateToken
<1>3. CASE CopyToken(p)
  BY <1>3 DEF CopyToken
<1> QED BY <1>1, <1>2, <1>3

\* However many daemons write the token file and commands poll it, with or
\* without earlier refreshes, a success is never the success of an old token.
THEOREM SuccessIsFresh == Spec => []NoStaleSuccess
<1>1. Init => PollInv /\ NoStaleSuccess
  BY DEF Init, PollInv, NoStaleSuccess
<1>2. RefreshInv /\ PollInv /\ NoStaleSuccess /\ [Next]_vars => PollInv' /\ NoStaleSuccess'
  <2>1. UNCHANGED vars /\ PollInv /\ NoStaleSuccess => PollInv' /\ NoStaleSuccess'
    BY DEF vars, tokenVars, commandVars, PollInv, NoStaleSuccess
  <2> QED BY <2>1, CommandSees, DaemonWrites DEF Next, RefreshInv
<1> QED
  BY <1>1, <1>2, RefreshInvHolds, PTL DEF Spec
=============================================================================
