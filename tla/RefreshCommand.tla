----------------------------- MODULE RefreshCommand -----------------------------
(***************************************************************************)
(* The refresh command beside the daemons: it reads the pid file, sends    *)
(* SIGHUP and, with --wait, polls the token file until its content is not  *)
(* what it was.  Nothing but those two files and the signal connects it to *)
(* a daemon.  What a daemon does about the signal is SignalLoop's subject; *)
(* here a daemon writes tokens whenever it likes.                          *)
(***************************************************************************)
EXTENDS PidFile

CONSTANTS
  Commands,  \* refresh processes
  Tokens     \* the tokens that may be issued, all different: bounds the refreshes

ASSUME RefreshAssumption ==
  /\ Tokens \intersect {"absent", "empty", "torn"} = {}
  /\ Commands \intersect Daemons = {}

VARIABLES
  token,    \* the content of the token file
  issued,   \* tokens written so far
  writing,  \* daemons that have the token file open
  command,  \* where each command is
  target,   \* the pid it has read
  initial,  \* the content it compares with
  seen,     \* the content that made it succeed
  fresh,    \* history: a token was written since its signal
  killed,   \* history: daemons that a command's signal ended
  strays    \* history: the numbers no daemon has that a signal went to

tokenVars == <<token, issued, writing>>
commandVars == <<command, target, initial, seen>>
vars == <<pidVars, tokenVars, commandVars, fresh, killed, strays>>

Contents == Tokens \union {"absent", "empty", "torn"}

\* The daemons' types and the commands'.
TypeOK ==
  /\ PidTypeOK
  /\ token \in Contents /\ issued \subseteq Tokens /\ writing \subseteq Daemons
  /\ command \in [Commands -> {"read", "signal", "initial", "poll", "postrun",
                               "done", "failed", "timeout"}]
  /\ target \in [Commands -> Daemons \union Strays \union {"none"}]
  /\ initial \in [Commands -> Contents] /\ seen \in [Commands -> Contents \union {"none"}]
  /\ fresh \subseteq Commands /\ killed \subseteq Daemons /\ strays \subseteq Strays

Init ==
  /\ PidInit
  /\ token = "absent" /\ issued = {} /\ writing = {}
  /\ command = [c \in Commands |-> "read"]
  /\ target = [c \in Commands |-> "none"]
  /\ initial = [c \in Commands |-> "absent"]
  /\ seen = [c \in Commands |-> "none"]
  /\ fresh = {} /\ killed = {} /\ strays = {}

-------------------------------------------------------------------------------
(* The daemons.                                                            *)

DaemonStep(p) ==
  /\ PidStep(p)
  /\ writing' = IF life'[p] \in Over THEN writing \ {p} ELSE writing
  /\ UNCHANGED <<token, issued, commandVars, fresh, killed, strays>>

Crash(p) ==
  /\ Killed(p)
  /\ writing' = writing \ {p}
  /\ UNCHANGED <<token, issued, commandVars, fresh, killed, strays>>

\* writeToken truncates the file, and copies the token.
CreateToken(p) ==
  /\ life[p] \in {"serve", "stop", "remove"}
  /\ p \notin writing
  /\ issued # Tokens
  /\ token' = "empty"
  /\ writing' = writing \union {p}
  /\ UNCHANGED <<pidVars, issued, commandVars, fresh, killed, strays>>

CopyToken(p) ==
  /\ p \in writing
  /\ \E t \in Tokens \ issued :
       /\ token' \in {t} \union (IF token = "empty" THEN {} ELSE {"torn"})
       /\ issued' = issued \union {t}
  /\ writing' = writing \ {p}
  /\ fresh' = fresh \union
                {c \in Commands : command[c] \in {"initial", "poll"}}
  /\ UNCHANGED <<pidVars, commandVars, killed, strays>>

-------------------------------------------------------------------------------
(* The refresh command.                                                    *)

At(c, from, to) ==
  /\ command[c] = from
  /\ command' = [command EXCEPT ![c] = to]

\* No file, nothing in it that is a number, or a file that cannot be read.
NoPid(c) ==
  /\ pidFile \in {"absent", "empty"} \/ FileFaults
  /\ At(c, "read", "failed")
  /\ UNCHANGED <<pidVars, tokenVars, target, initial, seen, fresh, killed, strays>>

ReadPid(c) ==
  /\ pidFile \notin {"absent", "empty"}
  /\ At(c, "read", "signal")
  /\ target' = [target EXCEPT ![c] = pidFile]
  /\ UNCHANGED <<pidVars, tokenVars, initial, seen, fresh, killed, strays>>

\* Without --wait the command ends after the signal.
Signalled(c) == At(c, "signal", "initial") \/ At(c, "signal", "postrun")

\* The process handles SIGHUP.
SignalDaemon(c) ==
  /\ \E p \in Daemons :
       target[c] = p /\ life[p] \in {"boot", "serve", "stop", "remove"}
  /\ Signalled(c)
  /\ UNCHANGED <<pidVars, tokenVars, target, initial, seen, fresh, killed, strays>>

\* The process does not handle SIGHUP yet, and ends.
SignalKills(c) ==
  /\ Signalled(c)
  /\ \E p \in Daemons :
       /\ target[c] = p /\ life[p] \in {"create", "write", "start"}
       /\ Killed(p)
       /\ writing' = writing \ {p}
       /\ killed' = killed \union {p}
  /\ UNCHANGED <<token, issued, target, initial, seen, fresh, strays>>

\* There is no such process.
SignalFails(c) ==
  /\ \E p \in Daemons : target[c] = p /\ ~Alive(p)
  /\ At(c, "signal", "failed")
  /\ UNCHANGED <<pidVars, tokenVars, target, initial, seen, fresh, killed, strays>>

\* Some other process, or none, has that number.
SignalStrays(c) ==
  /\ target[c] \in Strays
  /\ Signalled(c) \/ At(c, "signal", "failed")
  /\ strays' = strays \union {target[c]}
  /\ UNCHANGED <<pidVars, tokenVars, target, initial, seen, fresh, killed>>

\* Mutant: the content to compare with is not kept.
ReadInitialForgotten(c) ==
  /\ At(c, "initial", "poll")
  /\ UNCHANGED <<pidVars, tokenVars, target, initial, seen, fresh, killed, strays>>

\* The content to compare with is read after the signal was sent.
ReadInitial(c) ==
  /\ At(c, "initial", "poll")
  /\ initial' = [initial EXCEPT ![c] = token]
  /\ UNCHANGED <<pidVars, tokenVars, target, seen, fresh, killed, strays>>

\* A tick that finds the content changed; one that does not changes nothing.
Changed(c) ==
  /\ token # initial[c]
  /\ At(c, "poll", "postrun")
  /\ seen' = [seen EXCEPT ![c] = token]
  /\ UNCHANGED <<pidVars, tokenVars, target, initial, fresh, killed, strays>>

\* The token file cannot be read, before the first tick or at one.
CheckFails(c) ==
  /\ FileFaults
  /\ At(c, "initial", "failed") \/ At(c, "poll", "failed")
  /\ UNCHANGED <<pidVars, tokenVars, target, initial, seen, fresh, killed, strays>>

TimeOut(c) ==
  /\ At(c, "poll", "timeout")
  /\ UNCHANGED <<pidVars, tokenVars, target, initial, seen, fresh, killed, strays>>

CommandPostRun(c) ==
  /\ At(c, "postrun", "done")
  /\ PostRun(c)
  /\ UNCHANGED <<life, alone, tokenVars, target, initial, seen, fresh, killed, strays>>

-------------------------------------------------------------------------------
CommandStep(c) ==
  \/ NoPid(c) \/ ReadPid(c)
  \/ SignalDaemon(c) \/ SignalKills(c) \/ SignalFails(c) \/ SignalStrays(c)
  \/ ReadInitial(c) \/ Changed(c) \/ CheckFails(c) \/ TimeOut(c)
  \/ CommandPostRun(c)

Next ==
  \/ \E p \in Daemons :
       DaemonStep(p) \/ Crash(p) \/ CreateToken(p) \/ CopyToken(p)
  \/ \E c \in Commands : CommandStep(c)

Spec == Init /\ [][Next]_vars
-------------------------------------------------------------------------------
(* Properties.                                                             *)

\* A daemon that runs can be found: from when it wrote its pid the file holds
\* it for as long as it runs, whatever earlier daemons left behind when they
\* failed or were killed and whatever other commands do, as long as no two
\* daemons have run at once.
RunningIsFindable ==
  alone =>
    \A p \in wrotePid : life[p] \in Running => pidFile = p

\* A refresh signals no process but a daemon: no two pids are mixed in the file
\* as long as no two daemons have run at once, so that but for the part of a pid
\* that a failed write leaves behind its target has always been a daemon.
OnlyDaemonsSignalled == alone => strays \subseteq {"part"}

\* A refresh --wait that succeeds on anything but a truncated file has seen what
\* was written after its signal, never the token of an earlier refresh, however
\* many daemons write the file meanwhile.
NoStaleSuccess ==
  \A c \in Commands : seen[c] \notin {"none", "empty"} => c \in fresh

\* The text of --wait, "Wait for the token to be refreshed before exiting": a
\* command that succeeds has seen a token. Not so: a file that was truncated has
\* changed as well (README, disagreements).
SuccessMeansToken == \A c \in Commands : seen[c] \in Tokens \union {"none"}

\* The error of --wait, "new token not issued": a command that times out, with
\* the file as it found it, has missed no token since its signal.
TimeoutMeansNoToken ==
  \A c \in Commands :
    command[c] = "timeout" /\ token = initial[c] => c \notin fresh

\* The text of the command, "Forces the currently running daemon to request a
\* new web identity token": its signal ends no daemon. Not so: the pid file is
\* there before the daemon handles the signal (README, disagreements).
RefreshKillsNobody == killed = {}
=============================================================================
