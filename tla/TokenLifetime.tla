---------------------------- MODULE TokenLifetime ----------------------------
(***************************************************************************)
(* The life of the token in the file.  The finalizer gives a token its     *)
(* lifetime (oidc/claims.go), the generator derives from the same lifetime *)
(* how often it is to be refreshed (generator/handler.go), and the daemon  *)
(* learns that frequency once, when it boots (cli/run.go).  Time is        *)
(* counted in ticks; what is due at an instant happens before the clock    *)
(* moves past it.                                                          *)
(***************************************************************************)
EXTENDS Integers, FiniteSets

CONSTANTS
  Validities,   \* the lifetimes that may be configured, in ticks
  Unit,         \* ticks in a second, to which the dates in a token are cut
  MaxFlow,      \* assumed of the network: within this time a run's token is in the
                \* file, or lost
  RetryAfter,   \* the delay of a retry
  Horizon,      \* bound: when the clock stops
  MaxFailures,  \* bound: runs that fail
  MaxReloads,   \* bound: runs that SIGHUP asks for
  MaxBoots,     \* bound: how often the daemon is started
  MaxDeploys    \* bound: how often the lifetime is changed

None == -1

\* Mutant: refresh when the whole lifetime has elapsed.
FrequencyWhole(validity) == validity

\* Refresh after 75% of the lifetime has elapsed.
Frequency(validity) == (validity \div 4) * 3

\* Dates in a token are whole seconds, rounded down.
NumericDate(t) == (t \div Unit) * Unit

\* What is left of a lifetime after the refresh is due must hold the slowest
\* flow, and once more, since a reload may have replaced the token by an older
\* one, and the second that the rounding may take.  No ticker has a
\* frequency of zero, for which it panics.
ASSUME LifetimeAssumption ==
  /\ Unit \in Nat \ {0} /\ MaxFlow \in Nat \ {0} /\ RetryAfter \in Nat \ {0}
  /\ Horizon \in Nat /\ MaxFailures \in Nat /\ MaxReloads \in Nat
  /\ MaxBoots \in Nat /\ MaxDeploys \in Nat
  /\ Validities \subseteq Nat \ {0}
  /\ \A v \in Validities :
       v \div 4 > 0 /\ (v \div 4) * 3 + 2 * MaxFlow + Unit <= v

VARIABLES
  now,        \* the clock
  validity,   \* the lifetime that the finalizer and the generator are given
  published,  \* the frequency in config.json
  daemon,     \* [up, frequency, due, retry]: the ticker and the retry timer
  run,        \* when the job that runs was started, or None
  flows,      \* the flows polled by complete: their start, and their token
  file,       \* the token in the file, with its dates
  failed,     \* history: starts of the runs that failed since the file is good
  count       \* history: failures, reloads, boots and deploys so far

vars == <<now, validity, published, daemon, run, flows, file, failed, count>>

NoToken == [iat |-> None, exp |-> None, lifetime |-> None, boot |-> None]
Down == [up |-> FALSE, frequency |-> 0, due |-> None, retry |-> None]

Init ==
  /\ now = 0
  /\ validity \in Validities
  /\ published = Frequency(validity)
  /\ daemon = Down
  /\ run = None /\ flows = {}
  /\ file = NoToken
  /\ failed = {}
  /\ count = [failures |-> 0, reloads |-> 0, boots |-> 0, deploys |-> 0]

Counted(what) == count' = [count EXCEPT ![what] = @ + 1]

-------------------------------------------------------------------------------
(* The clock.                                                              *)

\* The job is inside the scheduler's goroutine: a timer waits for its end.
TimerReady ==
  /\ daemon.up /\ run = None
  /\ \/ daemon.due <= now
     \/ daemon.retry # None /\ daemon.retry <= now

\* Mutant: a flow is polled without a limit.
OverdueJobOnly == run # None /\ now >= run + MaxFlow

\* The backoff gives up after its maximal elapsed time, but does not interrupt a
\* request, and nothing limits the one that starts the flow: that each of them
\* has ended by MaxFlow is an assumption, which a request that hangs breaks.
Overdue ==
  \/ run # None /\ now >= run + MaxFlow
  \/ \E f \in flows : now >= f.start + MaxFlow

Advance ==
  /\ now < Horizon
  /\ ~TimerReady /\ ~Overdue
  /\ now' = now + 1
  /\ UNCHANGED <<validity, published, daemon, run, flows, file, failed, count>>

-------------------------------------------------------------------------------
(* The deployment.                                                         *)

\* The Lambdas' environment changes; config.json is not rewritten by that.
Deploy ==
  /\ count.deploys < MaxDeploys
  /\ validity' \in Validities \ {validity}
  /\ Counted("deploys")
  /\ UNCHANGED <<now, published, daemon, run, flows, file, failed>>

Generate ==
  /\ published # Frequency(validity)
  /\ published' = Frequency(validity)
  /\ UNCHANGED <<now, validity, daemon, run, flows, file, failed, count>>

-------------------------------------------------------------------------------
(* The daemon.                                                             *)

\* The retry timer is created with 0s, for the first run.
Boot ==
  /\ ~daemon.up
  /\ count.boots < MaxBoots
  /\ daemon' = [up |-> TRUE, frequency |-> published,
                due |-> now + published, retry |-> now]
  /\ failed' = {}
  /\ Counted("boots")
  /\ UNCHANGED <<now, validity, published, run, flows, file>>

\* The process ends, in order or not, and its goroutines with it.
End ==
  /\ daemon.up
  /\ daemon' = Down
  /\ run' = None /\ flows' = {}
  /\ UNCHANGED <<now, validity, published, file, failed, count>>

\* The dates of the ticker that may follow.  Its channel holds one tick, and one
\* that finds it full is dropped; the tick of this instant may be still to come.
NextTicks ==
  {d \in now .. now + daemon.frequency :
     d > daemon.due /\ (d - daemon.due) % daemon.frequency = 0}

\* A tick takes the next date of the ticker, a retry switches its timer off.
TakeTimer ==
  /\ TimerReady
  /\ run' = now
  /\ \/ daemon.due <= now
        /\ \E d \in NextTicks : daemon' = [daemon EXCEPT !.due = d]
     \/ daemon.retry # None /\ daemon.retry <= now
        /\ daemon' = [daemon EXCEPT !.retry = None]
  /\ UNCHANGED <<now, validity, published, flows, file, failed, count>>

Reload ==
  /\ daemon.up /\ run = None
  /\ count.reloads < MaxReloads
  /\ run' = now
  /\ Counted("reloads")
  /\ UNCHANGED <<now, validity, published, daemon, flows, file, failed>>

RunStartsFlow ==
  /\ run # None
  /\ flows' = flows \union {[start |-> run, token |-> NoToken]}
  /\ run' = None
  /\ UNCHANGED <<now, validity, published, daemon, file, failed, count>>

RunFails ==
  /\ run # None
  /\ count.failures < MaxFailures
  /\ daemon' \in {daemon, [daemon EXCEPT !.retry = now + RetryAfter]}
  /\ failed' = failed \union {run}
  /\ run' = None
  /\ Counted("failures")
  /\ UNCHANGED <<now, validity, published, flows, file>>

-------------------------------------------------------------------------------
(* A flow, polled by a goroutine of its own.                               *)

\* The finalizer: NewClaimsFromFlow.
Issue(f) ==
  /\ f.token = NoToken
  /\ flows' = (flows \ {f}) \union
       {[f EXCEPT !.token = [iat |-> NumericDate(now),
                             exp |-> NumericDate(now + validity),
                             lifetime |-> validity,
                             boot |-> count.boots]]}
  /\ UNCHANGED <<now, validity, published, daemon, run, file, failed, count>>

\* A run is made good by the token of a run that was started later.
Write(f) ==
  /\ f.token # NoToken
  /\ file' = f.token
  /\ flows' = flows \ {f}
  /\ failed' = {s \in failed : s > f.start}
  /\ UNCHANGED <<now, validity, published, daemon, run, count>>

\* Nothing retries a flow that was refused, timed out or could not be written; a
\* write that failed may have truncated the file.
Lose(f) ==
  /\ count.failures < MaxFailures
  /\ file' \in {file} \union (IF f.token = NoToken THEN {} ELSE {NoToken})
  /\ flows' = flows \ {f}
  /\ failed' = failed \union {f.start}
  /\ Counted("failures")
  /\ UNCHANGED <<now, validity, published, daemon, run>>

-------------------------------------------------------------------------------
Next ==
  \/ Advance
  \/ Deploy \/ Generate
  \/ Boot \/ End \/ TakeTimer \/ Reload \/ RunStartsFlow \/ RunFails
  \/ \E f \in flows : Issue(f) \/ Write(f) \/ Lose(f)

Spec == Init /\ [][Next]_vars
-------------------------------------------------------------------------------
(* Properties.                                                             *)

\* The file holds a token, of the daemon that runs, and this daemon refreshes
\* as often as the lifetime of that token asks for.
Maintained ==
  /\ daemon.up
  /\ file.boot = count.boots
  /\ daemon.frequency <= Frequency(file.lifetime)

\* Whatever the rounding of the dates, the order in which overlapping flows
\* write, and the time that each takes, a daemon whose runs succeed never
\* leaves an expired token in the file; every run that fails costs at most one
\* period of the ticker.
TokenFresh ==
  Maintained => now < file.exp + Cardinality(failed) * daemon.frequency

\* Overlapping flows may write in any order, but a token is only ever replaced
\* by one of the same lifetime that expires at most one flow earlier, unless a
\* write that fails leaves no token.
NotMuchOlder ==
  [][file' # file /\ file.lifetime = file'.lifetime /\ file.boot = file'.boot
       => file'.exp > file.exp - MaxFlow - Unit]_vars

\* Types; only a running daemon has goroutines, none of which is late, and the
\* dates of a token are in order.
TypeOK ==
  /\ now \in Nat
  /\ validity \in Validities
  /\ published \in {Frequency(v) : v \in Validities}
  /\ daemon.up => daemon.due <= now + daemon.frequency
  /\ run # None => daemon.up /\ run <= now /\ now <= run + MaxFlow
  /\ \A f \in flows : daemon.up /\ f.start <= now /\ now <= f.start + MaxFlow
  /\ file # NoToken => file.iat <= now /\ file.iat < file.exp
=============================================================================
