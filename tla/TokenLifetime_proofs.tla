------------------------ MODULE TokenLifetime_proofs ------------------------
(***************************************************************************)
(* The token in the file has not expired, for every lifetime, flow time    *)
(* and unit that satisfy LifetimeAssumption, and any number of failures,   *)
(* reloads, restarts and deployments.                                      *)
(*                                                                         *)
(* The argument looks at the dates of the ticker, taken or not.  At each   *)
(* of them a run was in progress, or was started.  What became of it is    *)
(* either in the file, in which nothing is older than that date by more    *)
(* than a flow, or in failed, or has not been decided; and only the last   *)
(* flow's time is undecided.                                               *)
(***************************************************************************)
EXTENDS TokenLifetime, FiniteSetTheorems, TLAPS

Frequencies == {Frequency(v) : v \in Validities}

Token == [iat : Int, exp : Int, lifetime : Int, boot : Int]

\* The last instant at which a token with these dates can have been issued.
Latest(token) == token.exp - token.lifetime + Unit - 1

\* The inductive invariant.  The values of the variables.
TypeInv ==
  /\ now \in Nat
  /\ validity \in Validities
  /\ published \in Frequencies
  /\ daemon \in [up : BOOLEAN, frequency : Nat, due : Int, retry : Int]
  /\ run \in Int
  /\ flows \subseteq [start : Nat, token : Token]
  /\ file \in Token
  /\ failed \subseteq Nat /\ IsFiniteSet(failed)
  /\ count \in [{"failures", "reloads", "boots", "deploys"} -> Nat]

\* The tick before the one that is due has passed.
TickerInv ==
  daemon.up => daemon.frequency \in Frequencies
               /\ daemon.due - daemon.frequency <= now

\* Only a running daemon has runs and flows, and none is late.
OnTime(start) == start <= now /\ now <= start + MaxFlow

RunsInv ==
  /\ run # None => daemon.up /\ run \in Nat /\ OnTime(run)
  /\ \A f \in flows : daemon.up /\ OnTime(f.start)

\* The dates of a token.
Dated(token) ==
  /\ token.lifetime \in Validities
  /\ token.iat <= now /\ token.iat < token.exp
  /\ token.exp <= now + token.lifetime

TokenInv ==
  /\ \A f \in flows : f.token # NoToken =>
       Dated(f.token) /\ f.token.boot = count.boots /\ f.start <= Latest(f.token)
  /\ file # NoToken => Dated(file)
  /\ file.boot <= count.boots

\* Everything that is, or can still come, into the file was issued at most one
\* flow before d.
Recent(d) ==
  /\ file.boot = count.boots => d - MaxFlow <= Latest(file)
  /\ run # None => d - MaxFlow <= run
  /\ \A f \in flows : d - MaxFlow <= f.start

\* A run in progress at d has not ended, or has failed.
Attempted(d) ==
  \E s \in Nat :
    /\ d - MaxFlow <= s /\ s <= d
    /\ s = run \/ s \in failed \/ \E f \in flows : f.start = s

Covered(d) == Recent(d) \/ Attempted(d)

\* The dates of the ticker, counted backwards from the one that is due.
Tick(j) == daemon.due - j * daemon.frequency

CoverInv ==
  daemon.up => \A j, d \in Int :
                 d = Tick(j) /\ (j >= 1 \/ d < now) => Covered(d)

LifeInv == TypeInv /\ TickerInv /\ RunsInv /\ TokenInv /\ CoverInv

-------------------------------------------------------------------------------
(* Arithmetic.                                                             *)

\* A flow takes less than a period of the ticker.
LEMMA FrequencyBounds ==
  ASSUME NEW n \in Frequencies
  PROVE  n \in Nat /\ MaxFlow < n
<1>1. PICK v \in Validities : n = Frequency(v)
  BY DEF Frequencies
<1>2. /\ v \in Nat /\ v \div 4 \in Nat /\ n = (v \div 4) * 3 /\ n > 0
      /\ n + 2 * MaxFlow + Unit <= v /\ v < 4 * (v \div 4) + 4
  BY <1>1, LifetimeAssumption DEF Frequency
<1>3. QED BY <1>2, LifetimeAssumption

\* Cutting a date to seconds loses less than one.
LEMMA NumericDateBounds ==
  ASSUME NEW t \in Int
  PROVE  NumericDate(t) \in Int /\ NumericDate(t) <= t /\ t < NumericDate(t) + Unit
BY LifetimeAssumption DEF NumericDate

\* Multiples of n are n apart.
LEMMA MultiplesApart ==
  ASSUME NEW n \in Nat, NEW i \in Int, NEW j \in Int, i < j
  PROVE  i * n \in Int /\ j * n \in Int /\ i * n + n <= j * n
OBVIOUS

\* Every date has a multiple of n at most n before it.
LEMMA MultipleBefore ==
  ASSUME NEW n \in Nat \ {0}, NEW t \in Int
  PROVE  \E j \in Int : j * n <= t /\ t < j * n + n
<1>1. t \div n \in Int /\ (t \div n) * n <= t /\ t < (t \div n) * n + n
  OBVIOUS
<1>2. QED BY <1>1

LEMMA Distributes ==
  ASSUME NEW n \in Int, NEW i \in Int, NEW j \in Int
  PROVE  (i + j) * n = i * n + j * n /\ (i - j) * n = i * n - j * n
OBVIOUS

LEMMA Divisible ==
  ASSUME NEW n \in Nat \ {0}, NEW t \in Int, t % n = 0
  PROVE  t \div n \in Int /\ t = (t \div n) * n
OBVIOUS

-------------------------------------------------------------------------------
(* The type invariant, the ticker, the runs and the tokens.                *)

\* The token that the finalizer makes.
LEMMA IssuedToken ==
  ASSUME TypeInv, NEW token,
         token = [iat |-> NumericDate(now), exp |-> NumericDate(now + validity),
                  lifetime |-> validity, boot |-> count.boots]
  PROVE  /\ token \in Token /\ token # NoToken
         /\ Dated(token) /\ token.boot = count.boots /\ now <= Latest(token)
<1>1. now \in Nat /\ validity \in Validities /\ validity \in Nat /\ count.boots \in Nat
  BY LifetimeAssumption DEF TypeInv
<1>2. /\ NumericDate(now) \in Int /\ NumericDate(now) <= now
      /\ NumericDate(now + validity) \in Int
      /\ NumericDate(now + validity) <= now + validity
      /\ now + validity < NumericDate(now + validity) + Unit
  BY <1>1, NumericDateBounds
<1>3. Unit \in Nat /\ MaxFlow \in Nat /\ Unit < validity
  <2>1. Frequency(validity) \in Nat
    BY <1>1 DEF Frequency
  <2>2. QED BY <1>1, <2>1, LifetimeAssumption
<1>4. token \in Token /\ token # NoToken
  BY <1>1, <1>2 DEF Token, NoToken, None
<1>5. QED BY <1>1, <1>2, <1>3, <1>4 DEF Dated, Latest

LEMMA InitLife == Init => LifeInv
<1> SUFFICES ASSUME Init PROVE LifeInv
  OBVIOUS
<1> USE DEF Init, Down
<1>1. TypeInv
  BY FS_EmptySet, LifetimeAssumption DEF TypeInv, Frequencies, NoToken, Token, None
<1>2. TickerInv /\ RunsInv /\ CoverInv
  BY DEF TickerInv, RunsInv, CoverInv
<1>3. TokenInv
  BY DEF TokenInv, NoToken, None
<1>4. QED BY <1>1, <1>2, <1>3 DEF LifeInv

LEMMA CountedTyped ==
  ASSUME TypeInv, NEW what \in {"failures", "reloads", "boots", "deploys"},
         Counted(what)
  PROVE  /\ count' \in [{"failures", "reloads", "boots", "deploys"} -> Nat]
         /\ what # "boots" => count'.boots = count.boots
         /\ what = "boots" => count'.boots = count.boots + 1
BY DEF TypeInv, Counted

LEMMA TypedNext == LifeInv /\ [Next]_vars => TypeInv'
<1> SUFFICES ASSUME LifeInv, [Next]_vars PROVE TypeInv'
  OBVIOUS
<1> USE DEF LifeInv, TypeInv
<1>1. CASE Advance
  BY <1>1 DEF Advance
<1>2. CASE Deploy
  BY <1>2, CountedTyped DEF Deploy
<1>3. CASE Generate
  BY <1>3 DEF Generate, Frequencies
<1>4. CASE Boot
  BY <1>4, CountedTyped, FrequencyBounds, FS_EmptySet DEF Boot
<1>5. CASE End
  BY <1>5 DEF End, Down, None
<1>6. CASE TakeTimer
  BY <1>6 DEF TakeTimer, NextTicks, None
<1>7. CASE Reload
  BY <1>7, CountedTyped DEF Reload
<1>8. CASE RunStartsFlow
  BY <1>8 DEF RunStartsFlow, RunsInv, NoToken, Token, None
<1>9. CASE RunFails
  <2>1. failed' \subseteq Nat /\ IsFiniteSet(failed')
    BY <1>9, FS_AddElement DEF RunFails, RunsInv
  <2>2. daemon' \in [up : BOOLEAN, frequency : Nat, due : Int, retry : Int]
    BY <1>9, LifetimeAssumption DEF RunFails
  <2>3. QED BY <1>9, <2>1, <2>2, CountedTyped DEF RunFails, None
<1>10. ASSUME NEW f \in flows, Issue(f) PROVE TypeInv'
  BY <1>10, IssuedToken DEF Issue
<1>11. ASSUME NEW f \in flows, Write(f) PROVE TypeInv'
  <2>1. failed' \subseteq Nat /\ IsFiniteSet(failed')
    BY <1>11, FS_Subset DEF Write
  <2>2. QED BY <1>11, <2>1 DEF Write
<1>12. ASSUME NEW f \in flows, Lose(f) PROVE TypeInv'
  <2>1. failed' \subseteq Nat /\ IsFiniteSet(failed')
    BY <1>12, FS_AddElement DEF Lose
  <2>2. file' \in Token
    BY <1>12 DEF Lose, NoToken, Token, None
  <2>3. QED BY <1>12, <2>1, <2>2, CountedTyped DEF Lose
<1>13. CASE UNCHANGED vars
  BY <1>13 DEF vars
<1>14. QED
  BY <1>1, <1>2, <1>3, <1>4, <1>5, <1>6, <1>7, <1>8, <1>9, <1>10, <1>11, <1>12,
     <1>13 DEF Next

\* A receive leaves the ticker at a later date of it, not more than one period
\* away.
LEMMA NextTick ==
  ASSUME TypeInv, daemon.up, daemon.frequency \in Frequencies, NEW d \in NextTicks
  PROVE  /\ d \in Int /\ now <= d /\ d - daemon.frequency <= now
         /\ \E k \in Int : k > 0 /\ d = daemon.due + k * daemon.frequency
<1>1. daemon.frequency \in Nat \ {0} /\ daemon.due \in Int /\ now \in Nat
  BY FrequencyBounds, LifetimeAssumption DEF TypeInv
<1>2. /\ d \in Int /\ now <= d /\ d <= now + daemon.frequency
      /\ d > daemon.due /\ (d - daemon.due) % daemon.frequency = 0
  BY <1>1 DEF NextTicks
<1>3. PICK k \in Int : d - daemon.due = k * daemon.frequency
  <2>1. d - daemon.due \in Int
    BY <1>1, <1>2
  <2>2. QED BY <1>1, <1>2, <2>1, Divisible
<1>4. k > 0
  BY <1>1, <1>2, <1>3
<1>5. QED BY <1>1, <1>2, <1>3, <1>4

LEMMA TickerNext == LifeInv /\ [Next]_vars => TickerInv'
<1> SUFFICES ASSUME LifeInv, [Next]_vars, daemon'.up
             PROVE  daemon'.frequency \in Frequencies
                    /\ daemon'.due - daemon'.frequency <= now'
  BY DEF TickerInv
<1> USE DEF LifeInv, TypeInv, TickerInv
<1>1. CASE Advance
  BY <1>1 DEF Advance
<1>2. CASE Boot
  BY <1>2, FrequencyBounds DEF Boot
<1>3. CASE End
  BY <1>3 DEF End, Down
<1>4. CASE TakeTimer
  <2>1. ASSUME NEW d \in NextTicks, daemon' = [daemon EXCEPT !.due = d]
        PROVE  daemon'.frequency \in Frequencies
               /\ daemon'.due - daemon'.frequency <= now'
    BY <1>4, <2>1, NextTick DEF TakeTimer, TimerReady
  <2>2. CASE daemon' = [daemon EXCEPT !.retry = None]
    BY <1>4, <2>2 DEF TakeTimer, TimerReady
  <2>3. QED BY <1>4, <2>1, <2>2 DEF TakeTimer
<1>5. CASE RunFails
  BY <1>5 DEF RunFails, RunsInv
<1>6. CASE UNCHANGED daemon /\ UNCHANGED now
  BY <1>6
<1>7. QED
  BY <1>1, <1>2, <1>3, <1>4, <1>5, <1>6
     DEF Next, vars, Deploy, Generate, Reload, RunStartsFlow, Issue, Write, Lose

LEMMA RunsNext == LifeInv /\ [Next]_vars => RunsInv'
<1> SUFFICES ASSUME LifeInv, [Next]_vars PROVE RunsInv'
  OBVIOUS
<1> USE DEF LifeInv, TypeInv, RunsInv, OnTime
<1>1. CASE Advance
  BY <1>1, LifetimeAssumption DEF Advance, Overdue
<1>2. CASE Boot
  BY <1>2 DEF Boot
<1>3. CASE End
  BY <1>3 DEF End
<1>4. CASE TakeTimer
  BY <1>4, LifetimeAssumption DEF TakeTimer, TimerReady
<1>5. CASE Reload
  BY <1>5, LifetimeAssumption DEF Reload
<1>6. CASE RunStartsFlow
  BY <1>6 DEF RunStartsFlow
<1>7. CASE RunFails
  BY <1>7 DEF RunFails
<1>8. ASSUME NEW f \in flows, Issue(f) PROVE RunsInv'
  BY <1>8 DEF Issue
<1>9. ASSUME NEW f \in flows, Write(f) \/ Lose(f) PROVE RunsInv'
  BY <1>9 DEF Write, Lose
<1>10. CASE UNCHANGED <<now, daemon, run, flows>>
  BY <1>10
<1>11. QED
  BY <1>1, <1>2, <1>3, <1>4, <1>5, <1>6, <1>7, <1>8, <1>9, <1>10
     DEF Next, vars, Deploy, Generate

\* The dates of a token stay right as time passes.
LEMMA DatedStays ==
  ASSUME TypeInv, now' \in Nat, now <= now', NEW token \in Token, Dated(token)
  PROVE  Dated(token)'
BY LifetimeAssumption DEF TypeInv, Token, Dated

LEMMA TokenNext == LifeInv /\ [Next]_vars => TokenInv'
<1> SUFFICES ASSUME LifeInv, [Next]_vars PROVE TokenInv'
  OBVIOUS
<1> USE DEF LifeInv, TypeInv, TokenInv
<1>1. CASE Advance
  <2>1. now' \in Nat /\ now <= now'
    BY <1>1 DEF Advance
  <2>2. \A f \in flows : f.token \in Token
    OBVIOUS
  <2>3. QED BY <1>1, <2>1, <2>2, DatedStays DEF Advance, Latest
<1>2. CASE Boot
  <2>1. flows = {}
    BY <1>2 DEF Boot, RunsInv
  <2>2. count'.boots = count.boots + 1
    BY <1>2, CountedTyped DEF Boot
  <2>3. file.boot \in Int /\ count.boots \in Nat
    BY DEF Token
  <2>4. QED BY <1>2, <2>1, <2>2, <2>3 DEF Boot, Dated
<1>3. CASE End
  BY <1>3 DEF End, Dated
<1>4. CASE RunStartsFlow
  BY <1>4 DEF RunStartsFlow, Dated, Latest
<1>5. ASSUME NEW f \in flows, Issue(f) PROVE TokenInv'
  <2> DEFINE token == [iat |-> NumericDate(now), exp |-> NumericDate(now + validity),
                       lifetime |-> validity, boot |-> count.boots]
  <2>1. token \in Token /\ Dated(token) /\ token.boot = count.boots
          /\ now <= Latest(token)
    BY IssuedToken
  <2>2. f.start \in Nat /\ f.start <= now
    BY DEF RunsInv, OnTime
  <2>3. f.start <= Latest(token)
    BY <2>1, <2>2, LifetimeAssumption DEF Latest, Token
  <2>4. flows' = (flows \ {f}) \union {[f EXCEPT !.token = token]}
    BY <1>5 DEF Issue
  <2>5. [f EXCEPT !.token = token].token = token
          /\ [f EXCEPT !.token = token].start = f.start
    OBVIOUS
  <2> HIDE DEF token
  <2>6. \A g \in flows' : g.token # NoToken =>
          Dated(g.token) /\ g.token.boot = count.boots /\ g.start <= Latest(g.token)
    BY <2>1, <2>3, <2>4, <2>5
  <2>7. QED BY <1>5, <2>6 DEF Issue, Dated, Latest
<1>6. ASSUME NEW f \in flows, Write(f) PROVE TokenInv'
  BY <1>6 DEF Write, Dated, Latest
<1>7. CASE Reload
  BY <1>7, CountedTyped DEF Reload, Dated, Latest
<1>8. CASE RunFails
  BY <1>8, CountedTyped DEF RunFails, Dated, Latest
<1>9. ASSUME NEW f \in flows, Lose(f) PROVE TokenInv'
  <2>1. file' # NoToken => file' = file
    BY <1>9 DEF Lose
  <2>2. file'.boot <= count'.boots
    BY <1>9, CountedTyped DEF Lose, NoToken, None
  <2>3. QED BY <1>9, <2>1, <2>2, CountedTyped DEF Lose, Dated, Latest
<1>10. CASE Deploy
  BY <1>10, CountedTyped DEF Deploy, Dated, Latest
<1>11. CASE UNCHANGED <<now, flows, file, count>>
  BY <1>11 DEF Dated, Latest
<1>12. QED
  BY <1>1, <1>2, <1>3, <1>4, <1>5, <1>6, <1>7, <1>8, <1>9, <1>10, <1>11
     DEF Next, vars, Generate, TakeTimer

-------------------------------------------------------------------------------
(* The dates of the ticker.                                                *)

\* What is written now was started at most one flow ago.
LEMMA WriteCovers ==
  ASSUME LifeInv, NEW f \in flows, Write(f), NEW d \in Int, d <= now,
         Covered(d)
  PROVE  Covered(d)'
<1> USE DEF LifeInv, TypeInv
<1>1. /\ f.start \in Nat /\ f.start <= Latest(f.token)
      /\ f.token \in Token /\ f.token.boot = count.boots
      /\ file' = f.token /\ flows' = flows \ {f} /\ run' = run
      /\ failed' = {s \in failed : s > f.start}
      /\ count' = count
  BY DEF Write, TokenInv
<1>2. Latest(f.token) \in Int /\ Latest(file') = Latest(f.token)
  BY <1>1, LifetimeAssumption DEF Latest, Token
<1>3. /\ run # None => run \in Nat /\ now <= run + MaxFlow
      /\ \A g \in flows : g.start \in Nat /\ now <= g.start + MaxFlow
  BY DEF RunsInv, OnTime
<1>4. CASE Recent(d)
  <2>1. d - MaxFlow <= f.start
    BY <1>4 DEF Recent
  <2>2. d - MaxFlow <= Latest(f.token)
    BY <1>1, <1>2, <2>1, LifetimeAssumption
  <2>3. Recent(d)'
    BY <1>1, <1>4, <2>2 DEF Recent, Latest
  <2>4. QED BY <2>3 DEF Covered
<1>5. CASE Attempted(d)
  <2>1. PICK s \in Nat :
          /\ d - MaxFlow <= s /\ s <= d
          /\ s = run \/ s \in failed \/ \E g \in flows : g.start = s
    BY <1>5 DEF Attempted
  <2>2. CASE s <= f.start
    <3>1. d - MaxFlow <= Latest(f.token)
      BY <1>1, <1>2, <2>1, <2>2, LifetimeAssumption
    <3>2. /\ run # None => d - MaxFlow <= run
          /\ \A g \in flows : d - MaxFlow <= g.start
      BY <1>3, LifetimeAssumption
    <3>3. Recent(d)'
      BY <1>1, <3>1, <3>2 DEF Recent, Latest
    <3>4. QED BY <3>3 DEF Covered
  <2>3. CASE s > f.start
    <3>1. s = run' \/ s \in failed' \/ \E g \in flows' : g.start = s
      BY <1>1, <2>1, <2>3
    <3>2. QED BY <2>1, <3>1 DEF Covered, Attempted
  <2>4. QED BY <1>1, <2>2, <2>3
<1>6. QED BY <1>4, <1>5 DEF Covered

\* A date that is covered stays so.
LEMMA CoverStays ==
  ASSUME LifeInv, daemon.up, daemon'.up, [Next]_vars,
         NEW d \in Int, d <= now, Covered(d)
  PROVE  Covered(d)'
<1> USE DEF LifeInv, TypeInv
<1>1. CASE Advance \/ Deploy \/ Generate \/ UNCHANGED vars
  <2>1. UNCHANGED <<run, failed, flows, file>> /\ count'.boots = count.boots
    BY <1>1, CountedTyped DEF Advance, Deploy, Generate, vars
  <2>2. QED BY <2>1 DEF Covered, Recent, Attempted, Latest
<1>2. CASE TakeTimer \/ Reload
  <2>1. /\ run = None /\ run' = now
        /\ UNCHANGED <<failed, flows, file>> /\ count'.boots = count.boots
    BY <1>2, CountedTyped DEF TakeTimer, TimerReady, Reload
  <2>2. CASE Recent(d)
    BY <2>1, <2>2, LifetimeAssumption DEF Covered, Recent, Latest
  <2>3. CASE Attempted(d)
    BY <2>1, <2>3 DEF Covered, Attempted, None
  <2>4. QED BY <2>2, <2>3 DEF Covered
<1>3. CASE RunStartsFlow
  <2>1. /\ run # None /\ run' = None
        /\ flows' = flows \union {[start |-> run, token |-> NoToken]}
        /\ UNCHANGED <<failed, file, count>>
    BY <1>3 DEF RunStartsFlow
  <2>2. CASE Recent(d)
    BY <2>1, <2>2 DEF Covered, Recent, Latest
  <2>3. CASE Attempted(d)
    BY <2>1, <2>3 DEF Covered, Attempted
  <2>4. QED BY <2>2, <2>3 DEF Covered
<1>4. CASE RunFails
  <2>1. /\ run' = None /\ failed' = failed \union {run}
        /\ UNCHANGED <<flows, file>> /\ count'.boots = count.boots
    BY <1>4, CountedTyped DEF RunFails
  <2>2. CASE Recent(d)
    BY <2>1, <2>2 DEF Covered, Recent, Latest
  <2>3. CASE Attempted(d)
    BY <2>1, <2>3 DEF Covered, Attempted
  <2>4. QED BY <2>2, <2>3 DEF Covered
<1>5. ASSUME NEW f \in flows, Issue(f) PROVE Covered(d)'
  <2>1. PICK g : g.start = f.start /\ flows' = (flows \ {f}) \union {g}
    BY <1>5 DEF Issue
  <2>2. UNCHANGED <<run, failed, file, count>>
    BY <1>5 DEF Issue
  <2>3. CASE Recent(d)
    BY <2>1, <2>2, <2>3 DEF Covered, Recent, Latest
  <2>4. CASE Attempted(d)
    BY <2>1, <2>2, <2>4 DEF Covered, Attempted
  <2>5. QED BY <2>3, <2>4 DEF Covered
<1>6. ASSUME NEW f \in flows, Write(f) PROVE Covered(d)'
  BY <1>6, WriteCovers
<1>7. ASSUME NEW f \in flows, Lose(f) PROVE Covered(d)'
  <2>1. /\ flows' = flows \ {f} /\ failed' = failed \union {f.start}
        /\ UNCHANGED run /\ count'.boots = count.boots
        /\ file' = file \/ file' = NoToken
    BY <1>7, CountedTyped DEF Lose
  <2>2. CASE Recent(d)
    <3>1. file' = NoToken => file'.boot # count'.boots
      BY <2>1 DEF NoToken, None
    <3>2. QED BY <2>1, <2>2, <3>1 DEF Covered, Recent, Latest
  <2>3. CASE Attempted(d)
    BY <2>1, <2>3 DEF Covered, Attempted
  <2>4. QED BY <2>2, <2>3 DEF Covered
<1>8. CASE Boot \/ End
  BY <1>8 DEF Boot, End, Down
<1>9. QED
  BY <1>1, <1>2, <1>3, <1>4, <1>5, <1>6, <1>7, <1>8 DEF Next

\* The run in progress when the ticker fires, or that it starts.
LEMMA RunCovers ==
  ASSUME NEW d \in Nat, NEW r \in Nat, r <= d, d <= r + MaxFlow, run' = r
  PROVE  Covered(d)'
BY LifetimeAssumption DEF Covered, Attempted

\* A date of the ticker that counts has passed, or is now.
LEMMA TickPassed ==
  ASSUME TypeInv, TickerInv, daemon.up, NEW j \in Int
  PROVE  /\ Tick(j) \in Int
         /\ j >= 1 => Tick(j) <= now
         /\ j < 1 => daemon.due <= Tick(j)
<1>1. daemon.frequency \in Nat /\ daemon.due \in Int /\ now \in Nat
        /\ daemon.due - daemon.frequency <= now
  BY FrequencyBounds DEF TypeInv, TickerInv
<1>2. j * daemon.frequency \in Int
  BY <1>1
<1>3. j >= 1 => daemon.frequency <= j * daemon.frequency
  BY <1>1, MultiplesApart
<1>4. j < 1 => j * daemon.frequency <= 0
  BY <1>1
<1>5. QED BY <1>1, <1>2, <1>3, <1>4 DEF Tick

LEMMA CoverNext == LifeInv /\ [Next]_vars => CoverInv'
<1> SUFFICES ASSUME LifeInv, [Next]_vars, daemon'.up, NEW j \in Int,
                    NEW t \in Int, t = Tick(j)', j >= 1 \/ t < now'
             PROVE  Covered(t)'
  BY DEF CoverInv
<1> USE DEF LifeInv
<1>1. CASE Boot
  <2>1. /\ flows' = {} /\ run' = None /\ file' = file
        /\ count'.boots = count.boots + 1
    BY <1>1, CountedTyped DEF Boot, RunsInv
  <2>2. file.boot # count'.boots
    BY <2>1 DEF TokenInv, TypeInv, Token
  <2>3. QED BY <2>1, <2>2 DEF Covered, Recent
<1>2. CASE Advance
  <2>1. /\ now \in Nat /\ now' = now + 1 /\ daemon' = daemon /\ run' = run
        /\ daemon.up
    BY <1>2 DEF Advance, TypeInv
  <2>2. t = Tick(j)
    BY <2>1 DEF Tick
  <2>3. CASE j >= 1 \/ t < now
    BY <2>1, <2>2, <2>3, TickPassed, CoverStays DEF CoverInv
  <2>4. CASE j < 1 /\ t = now
    <3>1. daemon.due <= now
      BY <2>1, <2>2, <2>4, TickPassed
    <3>2. run # None
      BY <1>2, <2>1, <3>1 DEF Advance, TimerReady
    <3>3. run \in Nat /\ run <= now /\ now <= run + MaxFlow
      BY <3>2 DEF RunsInv, OnTime
    <3>4. QED BY <2>1, <2>2, <2>4, <3>3, RunCovers
  <2>5. QED BY <2>1, <2>2, <2>3, <2>4
<1>3. CASE TakeTimer
  <2>1. /\ now \in Nat /\ now' = now /\ run' = now /\ daemon.up
        /\ daemon'.frequency = daemon.frequency
    BY <1>3 DEF TakeTimer, TimerReady, TypeInv
  <2>2. ASSUME NEW d \in NextTicks, daemon' = [daemon EXCEPT !.due = d]
        PROVE  Covered(t)'
    <3>1. PICK k \in Int : k > 0 /\ d = daemon.due + k * daemon.frequency
      BY <2>1, NextTick DEF TickerInv
    <3>2. daemon.frequency \in Nat /\ daemon.due \in Int /\ d \in Int
            /\ d - daemon.frequency <= now
      BY <2>1, NextTick DEF TypeInv, TickerInv
    <3>3. t = d - j * daemon.frequency
      BY <2>2, <2>1 DEF Tick, TypeInv
    <3>4. t = Tick(j - k)
      <4>1. (j - k) * daemon.frequency = j * daemon.frequency - k * daemon.frequency
        BY <3>2
      <4>2. QED BY <3>1, <3>2, <3>3, <4>1 DEF Tick
    <3>5. t <= now
      <4>1. j >= 1 => daemon.frequency <= j * daemon.frequency
        BY <3>2, MultiplesApart
      <4>2. QED BY <2>1, <3>2, <3>3, <3>4, <4>1
    <3>6. CASE t < now
      <4>1. Covered(t)
        BY <2>1, <3>1, <3>4, <3>6 DEF CoverInv
      <4>2. QED BY <2>1, <3>4, <3>5, <4>1, CoverStays
    <3>7. CASE t = now
      BY <2>1, <3>7, RunCovers, LifetimeAssumption
    <3>8. QED BY <2>1, <3>4, <3>5, <3>6, <3>7
  <2>3. CASE daemon' = [daemon EXCEPT !.retry = None]
    <3>1. t = Tick(j)
      BY <2>3 DEF Tick, TypeInv
    <3>2. QED BY <2>1, <3>1, TickPassed, CoverStays DEF CoverInv
  <2>4. QED BY <1>3, <2>2, <2>3 DEF TakeTimer
<1>4. CASE daemon.up /\ now' = now /\ daemon'.due = daemon.due
             /\ daemon'.frequency = daemon.frequency
  <2>1. t = Tick(j)
    BY <1>4 DEF Tick
  <2>2. QED BY <1>4, <2>1, TickPassed, CoverStays DEF CoverInv, TypeInv
<1>5. CASE RunFails
  BY <1>4, <1>5 DEF RunFails, RunsInv, TypeInv
<1>6. CASE End
  BY <1>6 DEF End, Down
<1>7. CASE UNCHANGED <<now, daemon>>
  BY <1>4, <1>7
<1>8. QED
  BY <1>1, <1>2, <1>3, <1>5, <1>6, <1>7
     DEF Next, vars, Deploy, Generate, Reload, RunStartsFlow, Issue, Write, Lose

-------------------------------------------------------------------------------
(* The theorems.                                                           *)

\* The inductive invariant holds in every reachable state.
THEOREM LifeInvHolds == Spec => []LifeInv
<1>1. LifeInv /\ [Next]_vars => LifeInv'
  BY TypedNext, TickerNext, RunsNext, TokenNext, CoverNext DEF LifeInv
<1>2. QED BY InitLife, <1>1, PTL DEF Spec

\* No run and no flow is ever late, and the dates of a token are in order.
THEOREM LifetimeTypeCorrect == Spec => []TypeOK
<1>1. LifeInv => TypeOK
  BY FrequencyBounds DEF LifeInv, TypeInv, TickerInv, RunsInv, OnTime, TokenInv, Dated,
     TypeOK, Frequencies
<1>2. QED BY <1>1, LifeInvHolds, PTL

\* If the token had expired, so many dates of the ticker would lie between its
\* issue and the last flow that is still undecided that more runs must have
\* failed than have.
LEMMA EnoughTicks == LifeInv => TokenFresh
<1> SUFFICES ASSUME LifeInv PROVE TokenFresh
  OBVIOUS
<1> SUFFICES ASSUME Maintained,
                    now >= file.exp + Cardinality(failed) * daemon.frequency
             PROVE  FALSE
  <2>1. /\ now \in Int /\ file.exp \in Int /\ daemon.frequency \in Nat
        /\ Cardinality(failed) \in Nat
    <3>1. IsFiniteSet(failed)
      BY DEF LifeInv, TypeInv
    <3>2. now \in Int /\ file.exp \in Int /\ daemon.frequency \in Nat
      BY DEF LifeInv, TypeInv, Token
    <3>3. QED BY <3>1, <3>2, FS_CardinalityType
  <2>2. Cardinality(failed) * daemon.frequency \in Int
    BY <2>1
  <2>3. QED BY <2>1, <2>2 DEF TokenFresh
<1> DEFINE n == Cardinality(failed)
           p == daemon.frequency
<1> USE DEF LifeInv
<1>1. daemon.up /\ file.boot = count.boots /\ p <= Frequency(file.lifetime)
  BY DEF Maintained
<1>2. /\ now \in Nat /\ daemon.due \in Int /\ p \in Nat \ {0} /\ MaxFlow < p
      /\ MaxFlow \in Nat /\ Unit \in Nat
  BY <1>1, FrequencyBounds, LifetimeAssumption DEF TypeInv, TickerInv
<1>3. n \in Nat /\ IsFiniteSet(failed)
  BY FS_CardinalityType DEF TypeInv
<1>4. file # NoToken
  BY <1>1 DEF TypeInv, NoToken, None
<1>5. /\ file.lifetime \in Nat /\ file.exp \in Int /\ Latest(file) \in Int
      /\ Latest(file) + p + 2 * MaxFlow + 1 <= file.exp
  <2>1. file.lifetime \in Validities /\ file.lifetime \in Nat /\ file.exp \in Int
    BY <1>4, LifetimeAssumption DEF TokenInv, Dated, TypeInv, Token
  <2>2. Frequency(file.lifetime) \in Int
        /\ Frequency(file.lifetime) + 2 * MaxFlow + Unit <= file.lifetime
    BY <2>1, LifetimeAssumption DEF Frequency
  <2>3. p + 2 * MaxFlow + Unit <= file.lifetime
    BY <1>1, <1>2, <2>1, <2>2, LifetimeAssumption
  <2>4. QED BY <1>2, <2>1, <2>3 DEF Latest
<1>6. n * p \in Nat /\ Latest(file) + p + 2 * MaxFlow + 1 + n * p <= now
  BY <1>2, <1>3, <1>5
\* The last date of the ticker before the undecided flow.
<1>7. PICK j \in Int : Tick(j) < now - MaxFlow /\ now - MaxFlow - p <= Tick(j)
  <2>1. PICK i \in Int : i * p <= daemon.due - now + MaxFlow
                         /\ daemon.due - now + MaxFlow < i * p + p
    <3>1. daemon.due - now + MaxFlow \in Int
      BY <1>2
    <3>2. QED BY <1>2, <3>1, MultipleBefore
  <2>2. (i + 1) * p = i * p + p
    <3>1. i \in Int /\ p \in Int /\ 1 * p = p
      BY <1>2, <2>1
    <3>2. QED BY <3>1, Distributes
  <2>3. Tick(i + 1) = daemon.due - (i * p + p)
    BY <2>2 DEF Tick
  <2>4. QED BY <1>2, <2>1, <2>2, <2>3
<1>8. ASSUME NEW i \in 0 .. n
      PROVE  \E s \in failed : Tick(j + i) - MaxFlow <= s /\ s <= Tick(j + i)
  <2>1. /\ Tick(j + i) = Tick(j) - i * p
        /\ i * p \in Int /\ 0 <= i * p /\ i * p <= n * p
    <3>1. (j + i) * p = j * p + i * p
      BY <1>2
    <3>2. 0 <= i * p /\ i * p <= n * p /\ i * p \in Int
      BY <1>2, <1>3
    <3>3. QED BY <1>2, <3>1, <3>2 DEF Tick
  <2>2. Tick(j) \in Int
    BY <1>2 DEF Tick
  <2>3. Tick(j + i) < now - MaxFlow
    BY <1>2, <1>7, <2>1, <2>2
  <2>4. Latest(file) < Tick(j + i) - MaxFlow
    BY <1>2, <1>5, <1>6, <1>7, <2>1, <2>2
  <2>5. Covered(Tick(j + i))
    BY <1>1, <1>2, <2>1, <2>2, <2>3, TickPassed DEF CoverInv
  <2>6. ~Recent(Tick(j + i))
    BY <1>1, <1>2, <1>5, <2>1, <2>2, <2>4 DEF Recent
  <2>7. PICK s \in Nat :
          /\ Tick(j + i) - MaxFlow <= s /\ s <= Tick(j + i)
          /\ s = run \/ s \in failed \/ \E f \in flows : f.start = s
    BY <2>5, <2>6 DEF Covered, Attempted
  <2>8. s + MaxFlow < now
    BY <1>2, <2>1, <2>2, <2>3, <2>7
  <2>9. s # run /\ ~\E f \in flows : f.start = s
    BY <1>2, <2>7, <2>8 DEF RunsInv, OnTime, None
  <2>10. QED BY <2>7, <2>9
<1> DEFINE missed == [i \in 0 .. n |->
             CHOOSE s \in failed : Tick(j + i) - MaxFlow <= s /\ s <= Tick(j + i)]
<1>9. \A i \in 0 .. n : /\ missed[i] \in failed
                         /\ Tick(j + i) - MaxFlow <= missed[i]
                         /\ missed[i] <= Tick(j + i)
  BY <1>8
<1> HIDE DEF missed
<1>10. ASSUME NEW i \in 0 .. n, NEW k \in 0 .. n, i < k
       PROVE  missed[i] # missed[k]
  <2>1. (j + i) * p \in Int /\ (j + k) * p \in Int /\ (j + i) * p + p <= (j + k) * p
    BY <1>2, <1>3, <1>10, MultiplesApart
  <2>2. missed[i] \in Nat /\ missed[k] \in Nat
    BY <1>9 DEF TypeInv
  <2>3. Tick(j + k) + p <= Tick(j + i) /\ Tick(j + k) \in Int /\ Tick(j + i) \in Int
    BY <1>2, <2>1 DEF Tick
  <2>4. missed[k] <= Tick(j + k) /\ Tick(j + i) - MaxFlow <= missed[i]
    BY <1>9
  <2>5. QED BY <1>2, <2>2, <2>3, <2>4
<1>11. missed \in Injection(0 .. n, failed)
  <2>1. missed \in [0 .. n -> failed]
    BY <1>9 DEF missed
  <2>2. \A i, k \in 0 .. n : missed[i] = missed[k] => i = k
    BY <1>3, <1>10
  <2>3. QED BY <2>1, <2>2 DEF Injection, IsInjective
<1>12. Cardinality(0 .. n) = n + 1
  BY <1>3, FS_Interval
<1>13. Cardinality(0 .. n) <= n
  BY <1>3, <1>11, FS_Injection
<1>14. QED BY <1>3, <1>12, <1>13

\* A daemon whose runs succeed never leaves an expired token in the file, and
\* each that fails costs at most one period.
THEOREM TokenStaysFresh == Spec => []TokenFresh
BY EnoughTicks, LifeInvHolds, PTL

\* Overlapping flows replace a token at most by one that is a flow older.
THEOREM NeverMuchOlder == Spec => NotMuchOlder
<1>1. ASSUME LifeInv, [Next]_vars, file' # file, file.lifetime = file'.lifetime,
             file.boot = file'.boot
      PROVE  file'.exp > file.exp - MaxFlow - Unit
  <2> USE <1>1 DEF LifeInv
  <2>1. PICK f \in flows : Write(f)
    <3>1. ASSUME NEW f \in flows, Lose(f) PROVE FALSE
      <4>1. file' = NoToken /\ file.lifetime = None
        BY <3>1 DEF Lose, NoToken
      <4>2. file # NoToken /\ file.lifetime \in Nat
        BY <4>1, LifetimeAssumption DEF TokenInv, Dated
      <4>3. QED BY <4>1, <4>2 DEF None
    <3>2. QED
      BY <3>1 DEF Next, vars, Advance, Deploy, Generate, Boot, End, TakeTimer, Reload,
         RunStartsFlow, RunFails, Issue
  <2>2. file' = f.token /\ f.token # NoToken
    BY <2>1 DEF Write
  <2>3. f.start <= Latest(f.token) /\ now <= f.start + MaxFlow
    BY <2>1, <2>2 DEF TokenInv, RunsInv, OnTime
  <2>4. /\ f.start \in Nat /\ now \in Nat /\ f.token.exp \in Int /\ file.exp \in Int
        /\ f.token.lifetime \in Int /\ MaxFlow \in Nat /\ Unit \in Nat
    BY <2>1, LifetimeAssumption DEF TypeInv, Token
  <2>5. file # NoToken
    <3>1. f.token.boot = count.boots /\ count.boots \in Nat
      BY <2>1, <2>2 DEF TokenInv, TypeInv
    <3>2. QED BY <2>2, <3>1 DEF NoToken, None
  <2>6. file.exp <= now + file.lifetime
    BY <2>5 DEF TokenInv, Dated
  <2>7. QED BY <2>2, <2>3, <2>4, <2>6 DEF Latest
<1>2. QED BY <1>1, LifeInvHolds, PTL DEF Spec, NotMuchOlder
=============================================================================
