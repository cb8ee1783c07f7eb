-------------------------------- MODULE PidFile --------------------------------
(***************************************************************************)
(* The life of client daemons around the pid file, as the root command has *)
(* it: PersistentPreRun writes the file before the daemon runs, and        *)
(* PersistentPostRun removes it, but only after a run without an error.    *)
(* Process identifiers are not used again.                                 *)
(***************************************************************************)

CONSTANTS
  Daemons,    \* daemon processes, by their pid
  FileFaults  \* whether a file may fail to be created, written, read or removed

ASSUME PidFileAssumption ==
  /\ FileFaults \in BOOLEAN
  /\ Daemons \intersect {"absent", "empty", "part", "torn"} = {}

VARIABLES
  life,      \* where each daemon is
  pidFile,   \* the content of the pid file
  open,      \* daemons whose descriptor is of the file that has the name now
  wrotePid,  \* processes that have written their pid
  alone      \* history: no two daemons were ever alive at once

pidVars == <<life, pidFile, open, wrotePid, alone>>

\* Numbers that no daemon has: part of a pid, and a mixture of two.
Strays == {"part", "torn"}

\* The daemon runs, from before it handles signals until its file is removed.
Running == {"start", "boot", "serve", "stop", "remove"}

Over == {"gone", "ended"}

Alive(p) == life[p] \notin {"off"} \union Over

\* Only a daemon that is writing its pid has the file open; the rest are types.
PidTypeOK ==
  /\ life \in [Daemons -> Running \union Over \union {"off", "create", "write"}]
  /\ pidFile \in Daemons \union Strays \union {"absent", "empty"}
  /\ open \subseteq {p \in Daemons : life[p] = "write"}
  /\ wrotePid \subseteq Daemons /\ alone \in BOOLEAN

PidInit ==
  /\ life = [p \in Daemons |-> "off"]
  /\ pidFile = "absent"
  /\ open = {}
  /\ wrotePid = {}
  /\ alone = TRUE

Goes(p, from, to) ==
  /\ life[p] = from
  /\ life' = [life EXCEPT ![p] = to]
  /\ alone' = (alone /\ (from = "off" => \A q \in Daemons : ~Alive(q)))

-------------------------------------------------------------------------------
(* PersistentPreRun.                                                       *)

Launch(p) ==
  /\ Goes(p, "off", "create")
  /\ UNCHANGED <<pidFile, open, wrotePid>>

\* The configuration or the log level is wrong.
PreRunFails(p) ==
  /\ Goes(p, "create", "gone")
  /\ UNCHANGED <<pidFile, open, wrotePid>>

\* Mutant: the content of an earlier daemon is kept.
CreatePidUntruncated(p) ==
  /\ Goes(p, "create", "write")
  /\ pidFile' = IF pidFile = "absent" THEN "empty" ELSE pidFile
  /\ open' = open \union {p}
  /\ UNCHANGED wrotePid

CreatePid(p) ==
  /\ Goes(p, "create", "write")
  /\ pidFile' = "empty"
  /\ open' = open \union {p}
  /\ UNCHANGED wrotePid

\* A shorter pid leaves the end of a longer one behind, and a file that was
\* removed takes the pid with it.
WritePid(p) ==
  /\ Goes(p, "write", "start")
  /\ IF p \in open
       THEN pidFile' \in {p} \union (IF pidFile = "empty" THEN {} ELSE {"torn"})
       ELSE pidFile' = pidFile
  /\ open' = open \ {p}
  /\ wrotePid' = wrotePid \union {p}

\* Either failure is logged, and the daemon runs without a pid file of its own.
CreatePidFails(p) ==
  /\ FileFaults
  /\ Goes(p, "create", "start")
  /\ UNCHANGED <<pidFile, open, wrotePid>>

\* Part of the pid may be in the file, which nobody will remove.
WritePidFails(p) ==
  /\ FileFaults
  /\ Goes(p, "write", "start")
  /\ pidFile' \in {pidFile} \union
       (IF p \notin open THEN {}
        ELSE IF pidFile = "empty" THEN {"part"} ELSE {"torn"})
  /\ open' = open \ {p}
  /\ UNCHANGED wrotePid

-------------------------------------------------------------------------------
(* Run, and PersistentPostRun.                                             *)

\* From signal.Notify on, SIGHUP does not end the process.
Notify(p) ==
  /\ Goes(p, "start", "boot")
  /\ UNCHANGED <<pidFile, open, wrotePid>>

\* Run returns an error, after which cobra runs no PersistentPostRun.
BootFails(p) ==
  /\ Goes(p, "boot", "gone")
  /\ UNCHANGED <<pidFile, open, wrotePid>>

Serve(p) ==
  /\ Goes(p, "boot", "serve")
  /\ UNCHANGED <<pidFile, open, wrotePid>>

Terminate(p) ==
  /\ Goes(p, "serve", "stop")
  /\ UNCHANGED <<pidFile, open, wrotePid>>

Stopped(p) ==
  /\ Goes(p, "stop", "remove")
  /\ UNCHANGED <<pidFile, open, wrotePid>>

\* Mutant: every command removes the file.
PostRunAlways(p) ==
  /\ pidFile' = "absent"
  /\ open' = {}
  /\ UNCHANGED wrotePid

\* Every command of the client runs it; only one that wrote the file removes it.
\* If that fails the file stays as it is, which is only logged.
PostRun(p) ==
  /\ \/ p \in wrotePid /\ pidFile' = "absent" /\ open' = {}
     \/ (p \in wrotePid => FileFaults) /\ UNCHANGED <<pidFile, open>>
  /\ UNCHANGED wrotePid

Remove(p) == Goes(p, "remove", "ended") /\ PostRun(p)

\* The process is killed.
Killed(p) ==
  /\ Alive(p)
  /\ life' = [life EXCEPT ![p] = "gone"]
  /\ open' = open \ {p}
  /\ UNCHANGED <<pidFile, wrotePid, alone>>

PidStep(p) ==
  \/ Launch(p) \/ PreRunFails(p) \/ CreatePid(p) \/ WritePid(p)
  \/ CreatePidFails(p) \/ WritePidFails(p)
  \/ Notify(p) \/ BootFails(p) \/ Serve(p) \/ Terminate(p) \/ Stopped(p)
  \/ Remove(p)
=============================================================================
