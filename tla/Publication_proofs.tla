-------------------------- MODULE Publication_proofs --------------------------
(***************************************************************************)
(* What the generator publishes, and who can rely on it.  For any number   *)
(* of documents, the generator reports exactly the failures there were and *)
(* leaves no goroutine behind; for any keys, aliases moved at any time and *)
(* any number of instances, a token verifies with the published key that   *)
(* it names, and until the alias moves every token does.                   *)
(***************************************************************************)
EXTENDS Generator, Signing, Integers, FiniteSetTheorems, TLAPS

-------------------------------------------------------------------------------
(* The generator.                                                          *)

\* The goroutines that Serve still has to wait for.
Counted == {j \in Job : writer[j] \in Active}

\* Types, without the bound of the counter.
Shape ==
  /\ serve \in {"spawn", "combine", "returned"}
  /\ next \in 1 .. Jobs + 1
  /\ writer \in [Job -> Active \union {"none", "end"}]
  /\ errors \in [Job -> 0 .. 1]
  /\ closed \subseteq Job /\ reported \subseteq Job /\ failed \subseteq Job
  /\ document \in [Job -> {"old", "new", "torn"}]

\* The wait group counts the goroutines that have not called Done.
CountInv == waiting = Cardinality(Counted)

\* Which goroutines exist while Serve spawns, and that all have ended later.
ProgressInv ==
  /\ serve = "spawn" => \A j \in Job : writer[j] = "none" <=> next <= j
  /\ NoStraggler

\* An error is nowhere before it is sent, and from then on in its channel or
\* on the stack.
ErrorInv ==
  \A j \in Job :
    /\ writer[j] \in {"none", "save"} => j \notin failed
    /\ writer[j] = "send" => j \in failed
    /\ errors[j] = 1 \/ j \in reported <=>
         j \in failed /\ writer[j] \in {"close", "done", "end"}
    /\ errors[j] = 1 => j \notin reported
    /\ writer[j] \in {"close", "done", "end"} /\ j \notin failed =>
         document[j] = "new"

\* Serve has emptied the channels it has been through.
CombineInv ==
  /\ serve = "spawn" => reported = {}
  /\ serve = "combine" => \A j \in Job : j < next => errors[j] = 0
  /\ serve = "returned" => \A j \in Job : errors[j] = 0

GenInv == Shape /\ CountInv /\ ProgressInv /\ ErrorInv /\ CombineInv

LEMMA JobFinite == IsFiniteSet(Job) /\ Cardinality(Job) = Jobs
BY FS_Interval, GeneratorAssumption DEF Job

LEMMA CountedFinite ==
  /\ IsFiniteSet(Counted)
  /\ Cardinality(Counted) \in 0 .. Jobs
<1>1. Counted \in SUBSET Job
  BY DEF Counted
<1>2. IsFiniteSet(Counted) /\ Cardinality(Counted) <= Jobs
  BY <1>1, JobFinite, FS_Subset
<1>3. QED
  BY <1>2, FS_CardinalityType, GeneratorAssumption

\* Nobody is left to be waited for when the counter is zero.
LEMMA ZeroMeansNone ==
  ASSUME Shape, CountInv, waiting = 0
  PROVE  \A j \in Job : writer[j] \notin Active
<1>1. Counted = {}
  BY CountedFinite, FS_EmptySet DEF CountInv
<1>2. QED
  BY <1>1 DEF Counted

LEMMA InitGen == Init => GenInv
<1> SUFFICES ASSUME Init
             PROVE  GenInv
  OBVIOUS
<1> USE GeneratorAssumption
<1>1. Shape
  BY DEF Init, Shape, Job
<1>2. Counted = {}
  BY DEF Init, Counted, Active
<1>3. CountInv
  BY <1>2, FS_EmptySet DEF Init, CountInv
<1>4. ProgressInv
  BY DEF Init, ProgressInv, NoStraggler, Job
<1>5. ErrorInv
  BY DEF Init, ErrorInv
<1>6. CombineInv
  BY DEF Init, CombineInv
<1>7. QED
  BY <1>1, <1>3, <1>4, <1>5, <1>6 DEF GenInv

-------------------------------------------------------------------------------
\* Only Spawn and Done change how many goroutines are active.
LEMMA CountSame ==
  ASSUME CountInv, Counted' = Counted, waiting' = waiting
  PROVE  CountInv'
BY DEF CountInv

LEMMA SpawnStep ==
  ASSUME GenInv, Spawn
  PROVE  GenInv'
<1> USE GeneratorAssumption
<1>1. next \in Job /\ writer[next] = "none"
  BY DEF GenInv, Shape, ProgressInv, Spawn, Job
<1>2. Shape'
  BY <1>1 DEF GenInv, Shape, Spawn, Active, Job
<1>3. CountInv'
  <2>1. Counted' = Counted \union {next}
    BY <1>1 DEF GenInv, Shape, Spawn, Counted, Active
  <2>2. next \notin Counted
    BY <1>1 DEF Counted, Active
  <2>3. QED
    BY <2>1, <2>2, CountedFinite, FS_AddElement DEF GenInv, CountInv, Spawn
<1>4. ProgressInv'
  BY <1>1 DEF GenInv, Shape, ProgressInv, NoStraggler, Spawn, Job
<1>5. ErrorInv'
  BY <1>1 DEF GenInv, Shape, ErrorInv, Spawn
<1>6. CombineInv'
  BY DEF GenInv, CombineInv, Spawn
<1>7. QED
  BY <1>2, <1>3, <1>4, <1>5, <1>6 DEF GenInv

LEMMA ServeRest ==
  ASSUME GenInv, Wait \/ Combine \/ Return
  PROVE  GenInv'
<1> USE GeneratorAssumption DEF GenInv
<1>0. CountInv'
  <2>1. Counted' = Counted /\ waiting' = waiting
    BY DEF Counted, Wait, Combine, Return
  <2>2. QED
    BY <2>1, CountSame
<1>1. CASE Wait
  <2>1. \A j \in Job : writer[j] = "end"
    <3>1. \A j \in Job : writer[j] # "none"
      BY <1>1 DEF Wait, Shape, ProgressInv, Job
    <3>2. \A j \in Job : writer[j] \notin Active
      BY <1>1, ZeroMeansNone DEF Wait
    <3>3. QED
      BY <3>1, <3>2 DEF Shape
  <2>2. Shape'
    BY <1>1 DEF Wait, Shape
  <2>3. ProgressInv'
    BY <1>1, <2>1 DEF Wait, ProgressInv, NoStraggler
  <2>4. ErrorInv'
    BY <1>1 DEF Wait, ErrorInv
  <2>5. CombineInv'
    BY <1>1 DEF Wait, CombineInv, Job
  <2>6. QED
    BY <1>0, <2>2, <2>3, <2>4, <2>5
<1>2. CASE Combine
  <2>1. next \in Job /\ next + 1 \in 1 .. Jobs + 1
    BY <1>2 DEF Combine, Shape, Job
  <2>2. errors' \in [Job -> 0 .. 1] /\ errors'[next] = 0
    BY <1>2, <2>1 DEF Combine, Shape
  <2>3. \A j \in Job : j # next => errors'[j] = errors[j]
    BY <1>2, <2>1 DEF Combine, Shape
  <2>4. reported' = IF errors[next] = 1 THEN reported \union {next} ELSE reported
    BY <1>2, <2>1 DEF Combine, Shape
  <2>5. Shape'
    BY <1>2, <2>1, <2>2, <2>4 DEF Combine, Shape
  <2>6. ProgressInv'
    BY <1>2 DEF Combine, ProgressInv, NoStraggler
  <2>7. ErrorInv'
    <3> SUFFICES ASSUME NEW j \in Job
                 PROVE  ErrorInv!(j)'
      BY DEF ErrorInv
    <3>1. CASE j = next
      BY <1>2, <2>1, <2>2, <2>4, <3>1 DEF Combine, ErrorInv, Shape
    <3>2. CASE j # next
      BY <1>2, <2>3, <2>4, <3>2 DEF Combine, ErrorInv, Shape
    <3>3. QED
      BY <3>1, <3>2
  <2>8. CombineInv'
    BY <1>2, <2>1, <2>2, <2>3 DEF Combine, CombineInv, Job
  <2>9. QED
    BY <1>0, <2>5, <2>6, <2>7, <2>8
<1>3. CASE Return
  <2>1. Shape' /\ ProgressInv' /\ ErrorInv'
    BY <1>3 DEF Return, Shape, ProgressInv, NoStraggler, ErrorInv
  <2>2. CombineInv'
    BY <1>3 DEF Return, CombineInv, Shape, Job
  <2>3. QED
    BY <1>0, <2>1, <2>2
<1>4. QED
  BY <1>1, <1>2, <1>3

\* Serve spawns for as long as a goroutine is active.
LEMMA StillSpawning ==
  ASSUME GenInv, NEW j \in Job, writer[j] \in Active
  PROVE  serve = "spawn"
BY DEF GenInv, Shape, ProgressInv, NoStraggler, Active

\* A save leaves a new document, or fails, with either backend.
LEMMA SavesDocument ==
  \A save \in Saves \union [failed : {TRUE}, left : {"old"}] :
    /\ save.left \in {"old", "new", "torn"} /\ save.failed \in BOOLEAN
    /\ save.failed \/ save.left = "new"
BY DEF Saves, FilesystemSaves, S3Saves

LEMMA WriterSteps ==
  ASSUME GenInv, NEW j \in Job, WriterStep(j)
  PROVE  GenInv'
<1> USE DEF GenInv
<1>0. writer[j] \in Active /\ serve = "spawn"
  <2>1. writer[j] \in Active
    BY DEF WriterStep, Write, Send, Close, Done, Active
  <2>2. QED
    BY <2>1, StillSpawning
<1>1. ASSUME NEW w \in Active \union {"end"}, writer' = [writer EXCEPT ![j] = w],
             serve' = serve, next' = next, reported' = reported
      PROVE  ProgressInv' /\ CombineInv'
  BY <1>0, <1>1 DEF Shape, ProgressInv, NoStraggler, CombineInv, Active
<1>2. ASSUME NEW w \in Active, writer' = [writer EXCEPT ![j] = w], waiting' = waiting
      PROVE  CountInv'
  <2>1. Counted' = Counted
    BY <1>0, <1>2 DEF Shape, Counted
  <2>2. QED
    BY <1>2, <2>1, CountSame
<1>3. CASE Write(j)
  <2>0. PICK left \in {"old", "new", "torn"}, failing \in BOOLEAN :
          /\ document' = [document EXCEPT ![j] = left]
          /\ failing \/ left = "new"
          /\ writer' = [writer EXCEPT ![j] = IF failing THEN "send" ELSE "close"]
          /\ failed' = IF failing THEN failed \union {j} ELSE failed
    BY <1>3, SavesDocument DEF Write
  <2>1. PICK w \in {"close", "send"} : writer' = [writer EXCEPT ![j] = w]
    BY <2>0
  <2>2. Shape'
    BY <1>3, <2>0 DEF Write, Shape, Active
  <2>3. ErrorInv'
    BY <1>3, <2>0 DEF Write, Shape, ErrorInv
  <2>4. w \in Active
    BY <2>1 DEF Active
  <2>5. ProgressInv' /\ CombineInv'
    BY <1>1, <1>3, <2>1, <2>4 DEF Write
  <2>6. CountInv'
    BY <1>2, <1>3, <2>1, <2>4 DEF Write
  <2>7. QED
    BY <2>2, <2>3, <2>5, <2>6
<1>4. CASE Send(j)
  <2>1. Shape'
    BY <1>4 DEF Send, Shape, Active
  <2>2. errors' = [errors EXCEPT ![j] = 1]
    <3>1. errors[j] \in 0 .. 1
      BY DEF Shape
    <3>2. errors[j] + 1 = 1
      BY <1>4, <3>1 DEF Send
    <3>3. QED
      BY <1>4, <3>2 DEF Send
  <2>3. ErrorInv'
    BY <1>4, <2>2 DEF Send, Shape, ErrorInv
  <2>4. "close" \in Active
    BY DEF Active
  <2>5. QED
    BY <1>1, <1>2, <1>4, <2>1, <2>3, <2>4 DEF Send
<1>5. CASE Close(j)
  <2>1. Shape'
    BY <1>5 DEF Close, Shape, Active
  <2>2. ErrorInv'
    BY <1>5 DEF Close, Shape, ErrorInv
  <2>3. "done" \in Active
    BY DEF Active
  <2>4. QED
    BY <1>1, <1>2, <1>5, <2>1, <2>2, <2>3 DEF Close
<1>6. CASE Done(j)
  <2>1. Shape'
    BY <1>6 DEF Done, Shape, Active
  <2>2. ErrorInv'
    BY <1>6 DEF Done, Shape, ErrorInv
  <2>3. CountInv'
    <3>1. Counted' = Counted \ {j}
      BY <1>6 DEF Done, Shape, Counted, Active
    <3>2. j \in Counted
      BY <1>0 DEF Counted
    <3>3. QED
      BY <1>6, <3>1, <3>2, CountedFinite, FS_RemoveElement DEF Done, CountInv
  <2>4. QED
    BY <1>1, <1>6, <2>1, <2>2, <2>3 DEF Done
<1>7. QED
  BY <1>3, <1>4, <1>5, <1>6 DEF WriterStep

LEMMA GenStep ==
  ASSUME GenInv, [Next]_vars
  PROVE  GenInv'
<1>1. CASE ServeStep
  BY <1>1, SpawnStep, ServeRest DEF ServeStep
<1>2. CASE \E j \in Job : WriterStep(j)
  BY <1>2, WriterSteps
<1>3. CASE UNCHANGED vars
  BY <1>3 DEF vars, GenInv, Shape, CountInv, Counted, ProgressInv, NoStraggler,
     ErrorInv, CombineInv
<1>4. QED
  BY <1>1, <1>2, <1>3 DEF Next

\* The inductive invariant of the generator.
THEOREM GenInvHolds == Spec => []GenInv
<1>1. GenInv /\ [Next]_vars => GenInv'
  BY GenStep
<1>2. QED
  BY InitGen, <1>1, PTL DEF Spec

\* The wait group's counter stays between zero and the number of documents.
THEOREM GeneratorTypeCorrect == Spec => []TypeOK
<1>1. GenInv => TypeOK
  BY CountedFinite DEF GenInv, Shape, CountInv, TypeOK
<1>2. QED
  BY GenInvHolds, <1>1, PTL

\* Serve returns the errors of exactly the jobs that failed, and nil only if
\* every document is new.
THEOREM ReportsEveryFailure == Spec => []FailuresReported
<1>1. GenInv => FailuresReported
  <2> SUFFICES ASSUME GenInv, serve = "returned"
               PROVE  reported = failed /\ \A j \in Job : j \notin reported => document[j] = "new"
    BY DEF FailuresReported
  <2>1. \A j \in Job : writer[j] = "end" /\ errors[j] = 0
    BY DEF GenInv, ProgressInv, NoStraggler, CombineInv
  <2>2. \A j \in Job : j \in reported <=> j \in failed
    BY <2>1 DEF GenInv, ErrorInv
  <2>3. reported = failed
    BY <2>2 DEF GenInv, Shape
  <2>4. QED
    BY <2>1, <2>2, <2>3 DEF GenInv, ErrorInv
<1>2. QED
  BY GenInvHolds, <1>1, PTL

\* No goroutine outlives the wait.
THEOREM NobodyIsLeftBehind == Spec => []NoStraggler
<1>1. GenInv => NoStraggler
  BY DEF GenInv, ProgressInv
<1>2. QED
  BY GenInvHolds, <1>1, PTL
-------------------------------------------------------------------------------
(* Serve returns: its steps run out, and until then somebody can take one.  *)

\* What a goroutine has still to do.
Ahead ==
  [none  |-> {"save", "send", "close", "done", "end"},
   save  |-> {"send", "close", "done", "end"},
   send  |-> {"close", "done", "end"},
   close |-> {"done", "end"},
   done  |-> {"end"},
   end   |-> {}]

Uncollected == {j \in Job : serve = "spawn" \/ (serve = "combine" /\ next <= j)}

\* What is still to be done for each job, and, under 0, by Serve itself.
Todo ==
  [j \in 0 .. Jobs |->
     IF j = 0
       THEN [spawn |-> {"wait", "return"}, combine |-> {"return"},
             returned |-> {}][serve]
       ELSE Ahead[writer[j]]
              \union (IF j \in Uncollected THEN {"collect"} ELSE {})]

\* A step adds nothing to what there is to do, and gets something done.
GetsDone ==
  /\ \A j \in 0 .. Jobs : Todo'[j] \subseteq Todo[j]
  /\ \E j \in 0 .. Jobs : Todo'[j] # Todo[j]

\* A goroutine whose job failed never waits for its error to be received, Serve
\* waits only for goroutines that can go on, and never for a channel that stays
\* open and empty.
NobodyBlocks ==
  /\ \A j \in Job : writer[j] = "send" => errors[j] < 1
  /\ serve = "spawn" /\ next > Jobs =>
       waiting = 0 \/ \E j \in Job : writer[j] \in Active
  /\ serve = "combine" /\ next <= Jobs => errors[next] > 0 \/ next \in closed

\* A goroutine that is done has closed its channel.
ClosedInv == \A j \in Job : writer[j] \in {"done", "end"} => j \in closed

LEMMA ClosedStep ==
  ASSUME GenInv, ClosedInv, [Next]_vars
  PROVE  ClosedInv'
<1> USE DEF GenInv, Shape, ClosedInv
<1>1. CASE Spawn
  <2>1. next \in Job
    BY <1>1, GeneratorAssumption DEF Spawn, Job
  <2> QED BY <1>1, <2>1 DEF Spawn
<1>2. CASE Wait \/ Combine \/ Return \/ UNCHANGED vars
  BY <1>2 DEF Wait, Combine, Return, vars
<1>3. ASSUME NEW j \in Job, WriterStep(j)
      PROVE  ClosedInv'
  BY <1>3 DEF WriterStep, Write, Send, Close, Done
<1> QED
  BY <1>1, <1>2, <1>3 DEF Next, ServeStep

\* However many jobs fail, whoever still has work to do can do it: a full
\* channel, an open one or the wait group never holds anybody up.
THEOREM NobodyWaitsInVain == Spec => []NobodyBlocks
<1>1. Init => ClosedInv
  BY DEF Init, ClosedInv
<1>2. GenInv /\ ClosedInv => NobodyBlocks
  <2> SUFFICES ASSUME GenInv, ClosedInv PROVE NobodyBlocks
    OBVIOUS
  <2>1. \A j \in Job : writer[j] = "send" => errors[j] < 1
    BY DEF GenInv, Shape, ErrorInv
  <2>2. waiting = 0 \/ \E j \in Job : writer[j] \in Active
    <3>1. CASE Counted = {}
      BY <3>1, FS_EmptySet DEF GenInv, CountInv
    <3>2. CASE Counted # {}
      BY <3>2 DEF Counted
    <3> QED BY <3>1, <3>2
  <2>3. serve = "combine" /\ next <= Jobs => next \in closed
    BY GeneratorAssumption
    DEF GenInv, Shape, ProgressInv, NoStraggler, ClosedInv, Job
  <2> QED BY <2>1, <2>2, <2>3 DEF NobodyBlocks
<1> QED
  BY <1>1, <1>2, ClosedStep, GenInvHolds, PTL DEF Spec

LEMMA ServeGetsDone ==
  ASSUME GenInv, ServeStep
  PROVE  GetsDone
<1> USE GeneratorAssumption DEF GenInv, Shape, Job
<1>1. CASE Spawn
  <2>1. next \in Job /\ writer[next] = "none"
    BY <1>1 DEF Spawn, ProgressInv
  <2>2. Uncollected' = Uncollected
    BY <1>1 DEF Spawn, Uncollected
  <2>3. \A j \in 0 .. Jobs : j # next => Todo'[j] = Todo[j]
    BY <1>1, <2>1, <2>2 DEF Spawn, Todo
  <2>4. writer'[next] = "save"
    BY <1>1, <2>1 DEF Spawn
  <2>5. Ahead["save"] \subseteq Ahead["none"] /\ "save" \in Ahead["none"] \ Ahead["save"]
    BY DEF Ahead
  <2>6. Todo'[next] \subseteq Todo[next] /\ "save" \in Todo[next] \ Todo'[next]
    BY <2>1, <2>2, <2>4, <2>5 DEF Todo
  <2> QED BY <2>1, <2>3, <2>6 DEF GetsDone
<1>2. CASE Wait
  <2>1. Uncollected' \subseteq Uncollected
    BY <1>2 DEF Wait, Uncollected
  <2>2. \A j \in 1 .. Jobs : Todo'[j] \subseteq Todo[j]
    BY <1>2, <2>1 DEF Wait, Todo
  <2>3. Todo[0] = {"wait", "return"} /\ Todo'[0] = {"return"}
    BY <1>2 DEF Wait, Todo
  <2> QED BY <2>2, <2>3 DEF GetsDone
<1>3. CASE Combine
  <2>1. Uncollected' = Uncollected \ {next} /\ next \in Uncollected
    BY <1>3 DEF Combine, Uncollected
  <2>2. \A j \in 0 .. Jobs : Todo'[j] \subseteq Todo[j]
    BY <1>3, <2>1 DEF Combine, Todo
  <2>3. "collect" \in Todo[next]
    BY <1>3, <2>1 DEF Combine, Todo
  <2>4. "collect" \notin Todo'[next]
    <3>1. \A w \in Active \union {"none", "end"} : "collect" \notin Ahead[w]
      BY DEF Active, Ahead
    <3>2. Todo'[next] = Ahead[writer[next]]
      BY <1>3, <2>1 DEF Combine, Todo
    <3> QED BY <1>3, <3>1, <3>2 DEF Combine
  <2>5. next \in 0 .. Jobs
    BY <1>3 DEF Combine
  <2> QED BY <2>2, <2>3, <2>4, <2>5 DEF GetsDone
<1>4. CASE Return
  <2>1. Uncollected' \subseteq Uncollected
    BY <1>4 DEF Return, Uncollected
  <2>2. \A j \in 1 .. Jobs : Todo'[j] \subseteq Todo[j]
    BY <1>4, <2>1 DEF Return, Todo
  <2>3. Todo'[0] \subseteq Todo[0] /\ Todo'[0] # Todo[0]
    BY <1>4 DEF Return, Todo
  <2> QED BY <2>2, <2>3 DEF GetsDone
<1> QED
  BY <1>1, <1>2, <1>3, <1>4 DEF ServeStep

LEMMA WriterGetsDone ==
  ASSUME GenInv, NEW j \in Job, WriterStep(j)
  PROVE  GetsDone
<1> USE GeneratorAssumption DEF GenInv, Shape, Job
<1>1. PICK w \in Active \union {"end"} :
        /\ writer' = [writer EXCEPT ![j] = w]
        /\ Ahead[w] \subseteq Ahead[writer[j]] /\ w \in Ahead[writer[j]] \ Ahead[w]
  <2>1. CASE Write(j)
    <3>1. \E w \in {"send", "close"} : writer' = [writer EXCEPT ![j] = w]
      BY <2>1 DEF Write
    <3> QED BY <2>1, <3>1 DEF Write, Active, Ahead
  <2>2. CASE Send(j)
    BY <2>2 DEF Send, Active, Ahead
  <2>3. CASE Close(j)
    BY <2>3 DEF Close, Active, Ahead
  <2>4. CASE Done(j)
    BY <2>4 DEF Done, Active, Ahead
  <2> QED BY <2>1, <2>2, <2>3, <2>4 DEF WriterStep
<1>2. serve' = serve /\ Uncollected' = Uncollected
  BY DEF WriterStep, Write, Send, Close, Done, Uncollected
<1>3. \A i \in 0 .. Jobs : i # j => Todo'[i] = Todo[i]
  BY <1>1, <1>2 DEF Todo
<1>4. Todo'[j] \subseteq Todo[j]
  BY <1>1, <1>2 DEF Todo
<1>5. w \in Todo[j] \ Todo'[j]
  BY <1>1, <1>2 DEF Todo, Active
<1> QED
  BY <1>3, <1>4, <1>5 DEF GetsDone

\* The steps of Serve and of its goroutines run out: what there is to do is
\* finite, and every step leaves less of it.  With NobodyWaitsInVain: when
\* everybody has stopped, Serve has returned.
THEOREM StepsRunOut == Spec => [][GetsDone]_vars
<1>1. GenInv /\ [Next]_vars => [GetsDone]_vars
  BY ServeGetsDone, WriterGetsDone DEF Next
<1> QED
  BY <1>1, GenInvHolds, PTL DEF Spec

-------------------------------------------------------------------------------
(* The keys.                                                               *)

Specs == DOMAIN newKmsKey

\* Nothing but the enablement of a key changes, and a key in memory is one of
\* RSA.
KeysInv ==
  /\ keys \in [Keys -> [spec : KeySpecs, usage : {"SIGN_VERIFY", "OTHER"},
                        enabled : BOOLEAN]]
  /\ alias \in Keys
  /\ backend = "memory" => \A k \in Keys : keys[k].spec = "RSA_2048"

\* An instance holds a key that it can sign with.
SignerInv ==
  /\ signer \in [Instances -> Keys \union {NoKey}]
  /\ \A i \in Instances : signer[i] # NoKey => keys[signer[i]].spec \in Specs

JwksInv ==
  \A jwk \in jwks : /\ jwk.kid \in Keys
                    /\ jwk.key = jwk.kid
                    /\ jwk.alg = newKmsKey[keys[jwk.kid].spec].algorithm

\* The octets of a signature once it was transformed.
Transformed(spec) == 2 * newKmsKey[spec].length

TokensInv ==
  \A t \in tokens :
    /\ t.kid \in Keys /\ keys[t.kid].spec \in Specs
    /\ t.alg = newKmsKey[keys[t.kid].spec].algorithm
    /\ t.signature.key = t.kid
    /\ t.signature.scheme = newKmsKey[keys[t.kid].spec].scheme
    /\ t.signature.octets = Transformed(keys[t.kid].spec)

SigningInv == KeysInv /\ SignerInv /\ JwksInv /\ TokensInv

\* The algorithm under which a key is published names its scheme, and the
\* length that the transformer gives its signatures.
LEMMA AlgorithmMatches ==
  ASSUME NEW spec \in Specs
  PROVE  LET key == newKmsKey[spec] IN
           /\ Jwa[key.algorithm].scheme = key.scheme
           /\ Jwa[key.algorithm].octets = Transformed(spec)
<1> USE DEF newKmsKey, Jwa, Transformed
<1>1. spec \in {"RSA_2048", "RSA_3072", "RSA_4096",
                "ECC_NIST_P256", "ECC_NIST_P384", "ECC_NIST_P521"}
  BY DEF Specs
<1>2. CASE spec = "RSA_2048" BY <1>2
<1>3. CASE spec = "RSA_3072" BY <1>3
<1>4. CASE spec = "RSA_4096" BY <1>4
<1>5. CASE spec = "ECC_NIST_P256" BY <1>5
<1>6. CASE spec = "ECC_NIST_P384" BY <1>6
<1>7. CASE spec = "ECC_NIST_P521" BY <1>7
<1> QED BY <1>1, <1>2, <1>3, <1>4, <1>5, <1>6, <1>7

\* What KMS gives for a key, transformed, is a signature of the key with its
\* scheme and length.
LEMMA SignatureMatches ==
  ASSUME NEW k \in Keys, keys[k].spec \in Specs,
         NEW raw \in KmsSignatures(k, newKmsKey[keys[k].spec].scheme),
         NEW s \in transformEcdsaSignature(newKmsKey[keys[k].spec].length, raw)
  PROVE  /\ s.key = k
         /\ s.scheme = newKmsKey[keys[k].spec].scheme
         /\ s.octets = Transformed(keys[k].spec)
<1> DEFINE spec == keys[k].spec
           key == newKmsKey[spec]
<1>1. \/ raw = [key |-> k, scheme |-> key.scheme, octets |-> 0]
      \/ /\ spec \notin RsaSpecs
         /\ \E short \in {0, 1} :
              raw = [key |-> k, scheme |-> key.scheme, octets |-> CurveOctets[spec] - short]
  <2> DEFINE rsa == spec \in RsaSpecs /\ key.scheme \in RsaSchemes
             ecc == spec \in EccSpecs /\ key.scheme = EcdsaScheme[spec]
             ofRsa == {[key |-> k, scheme |-> key.scheme, octets |-> 0]}
             ofEcc == {[key |-> k, scheme |-> key.scheme,
                        octets |-> CurveOctets[spec] - short] : short \in {0, 1}}
  <2>1. KmsSignatures(k, key.scheme) =
          IF ~keys[k].enabled THEN {} ELSE IF rsa THEN ofRsa ELSE IF ecc THEN ofEcc ELSE {}
    BY DEF KmsSignatures
  <2>2. ecc => spec \notin RsaSpecs
    BY DEF EccSpecs, RsaSpecs
  <2> HIDE DEF rsa, ecc
  <2>3. raw \in ofRsa \/ (raw \in ofEcc /\ ecc)
    BY <2>1
  <2> QED BY <2>2, <2>3
<1>2. spec \in RsaSpecs => key.length = 0
  BY DEF RsaSpecs, newKmsKey
<1>3. spec \notin RsaSpecs => key.length # 0
  BY DEF Specs, RsaSpecs, newKmsKey
<1>4. CASE spec \in RsaSpecs
  <2>1. s = raw /\ Transformed(spec) = 0
    BY <1>2, <1>4 DEF transformEcdsaSignature, Transformed
  <2>2. raw = [key |-> k, scheme |-> key.scheme, octets |-> 0]
    BY <1>1, <1>4
  <2> QED BY <2>1, <2>2
<1>5. CASE spec \notin RsaSpecs
  <2>1. s = [raw EXCEPT !.octets = 2 * key.length]
    BY <1>3, <1>5 DEF transformEcdsaSignature
  <2>2. \E n : raw = [key |-> k, scheme |-> key.scheme, octets |-> n]
    BY <1>1
  <2> QED BY <2>1, <2>2 DEF Transformed
<1> QED BY <1>4, <1>5

LEMMA InitSigning == SigningInit => SigningInv
<1> SUFFICES ASSUME SigningInit PROVE SigningInv
  OBVIOUS
<1>1. KeysInv
  BY DEF SigningInit, KeysInv
<1>2. SignerInv
  BY DEF SigningInit, SignerInv
<1>3. JwksInv /\ TokensInv
  BY DEF SigningInit, JwksInv, TokensInv
<1> QED BY <1>1, <1>2, <1>3 DEF SigningInv

LEMMA SigningStep == SigningInv /\ [SigningNext]_signingVars => SigningInv'
<1> SUFFICES ASSUME SigningInv, [SigningNext]_signingVars PROVE SigningInv'
  OBVIOUS
<1> USE DEF SigningInv
<1>1. CASE MoveAlias \/ UNCHANGED signingVars
  BY <1>1 DEF MoveAlias, signingVars, KeysInv, SignerInv, JwksInv, TokensInv
<1>2. ASSUME NEW k \in Keys, Toggle(k) PROVE SigningInv'
  <2>1. keys' \in [Keys -> [spec : KeySpecs, usage : {"SIGN_VERIFY", "OTHER"}, enabled : BOOLEAN]]
    BY <1>2 DEF Toggle, KeysInv
  <2>2. \A m \in Keys : keys'[m].spec = keys[m].spec
    BY <1>2 DEF Toggle, KeysInv
  <2>3. UNCHANGED <<backend, alias, signer, jwks, tokens>>
    BY <1>2 DEF Toggle
  <2>4. KeysInv'
    BY <2>1, <2>2, <2>3 DEF KeysInv
  <2>5. SignerInv'
    BY <2>2, <2>3 DEF SignerInv
  <2>6. JwksInv' /\ TokensInv'
    BY <2>2, <2>3 DEF JwksInv, TokensInv
  <2> QED BY <2>4, <2>5, <2>6
<1>3. ASSUME NEW i \in Instances, InstanceStep(i) PROVE SigningInv'
  <2>1. CASE NewKMS(i)
    <3>1. alias \in Keys /\ keys[alias].spec \in Specs
      BY <2>1 DEF NewKMS, Resolvable, Specs, KeysInv
    <3> QED BY <2>1, <3>1 DEF NewKMS, KeysInv, SignerInv, JwksInv, TokensInv
  <2>2. CASE NewInMemory(i)
    <3>1. PICK k \in Keys : signer' = [signer EXCEPT ![i] = k]
      BY <2>2 DEF NewInMemory
    <3>2. keys[k].spec \in Specs
      BY <2>2 DEF NewInMemory, KeysInv, Specs, newKmsKey
    <3> QED BY <2>2, <3>1, <3>2 DEF NewInMemory, KeysInv, SignerInv, JwksInv, TokensInv
  <2>3. CASE Discard(i)
    BY <2>3 DEF Discard, KeysInv, SignerInv, JwksInv, TokensInv
  <2>4. CASE WriteJwkSet(i)
    <3>1. JwksInv'
      BY <2>4 DEF WriteJwkSet, PublicKey, JwksInv, SignerInv
    <3> QED BY <2>4, <3>1 DEF WriteJwkSet, KeysInv, SignerInv, TokensInv
  <2>5. CASE WriteDiscoveryDocument(i)
    BY <2>5 DEF WriteDiscoveryDocument, KeysInv, SignerInv, JwksInv, TokensInv
  <2>6. CASE Sign(i)
    <3> DEFINE k == signer[i]
               key == newKmsKey[keys[k].spec]
    <3>1. k \in Keys /\ keys[k].spec \in Specs
      BY <2>6 DEF Sign, SignerInv
    <3>2. PICK raw \in KmsSignatures(k, key.scheme) :
            \E s \in transformEcdsaSignature(key.length, raw) :
              tokens' = tokens \union {[kid |-> k, alg |-> key.algorithm, signature |-> s]}
      BY <2>6 DEF Sign
    <3>3. PICK s \in transformEcdsaSignature(key.length, raw) :
            tokens' = tokens \union {[kid |-> k, alg |-> key.algorithm, signature |-> s]}
      BY <3>2
    <3>4. s.key = k /\ s.scheme = key.scheme /\ s.octets = Transformed(keys[k].spec)
      BY <3>1, SignatureMatches
    <3>5. UNCHANGED <<backend, keys, alias, signer, jwks>>
      BY <2>6 DEF Sign
    <3>6. TokensInv'
      BY <3>1, <3>3, <3>4, <3>5 DEF TokensInv
    <3> QED BY <3>5, <3>6 DEF KeysInv, SignerInv, JwksInv
  <2> QED BY <1>3, <2>1, <2>2, <2>3, <2>4, <2>5, <2>6 DEF InstanceStep
<1> QED BY <1>1, <1>2, <1>3 DEF SigningNext

\* Whatever happens to the alias, a token verifies with the published key that
\* it names: what PublishedKeyVerifies says.
THEOREM NamedKeyVerifies == SigningSpec => []PublishedKeyVerifies
<1>1. SigningInv => PublishedKeyVerifies
  BY AlgorithmMatches DEF SigningInv, JwksInv, TokensInv, PublishedKeyVerifies, Verifies
<1> QED BY <1>1, InitSigning, SigningStep, PTL DEF SigningSpec

-------------------------------------------------------------------------------
(* Until the alias moves.                                                  *)

\* One key alone: what the alias names, instances hold, documents list and
\* tokens were signed with.
Only(k) ==
  /\ backend = "kms" => alias = k
  /\ \A i \in Instances : signer[i] \in {NoKey, k}
  /\ \A jwk \in jwks : jwk.kid = k
  /\ \A t \in tokens : t.kid = k

\* The moves are counted, and before the first there is one key.
MovesInv ==
  /\ moves \in 0 .. MaxMoves
  /\ moves = 0 => \E k \in Keys : Only(k)
  /\ discovery \in {{}, signingAlgorithms}

LEMMA InitMoves == SigningInit => MovesInv
<1> SUFFICES ASSUME SigningInit PROVE MovesInv
  OBVIOUS
<1>1. Only(alias) /\ alias \in Keys
  BY DEF SigningInit, Only
<1>2. moves \in 0 .. MaxMoves
  BY SigningAssumption DEF SigningInit
<1> QED BY <1>1, <1>2 DEF SigningInit, MovesInv

\* A step after which the one key is still the only one.
LEMMA OnlyKept ==
  ASSUME MovesInv, moves' = moves, discovery' \in {discovery, signingAlgorithms},
         \A k \in Keys : Only(k) => Only(k)'
  PROVE  MovesInv'
BY DEF MovesInv

LEMMA MovesStep ==
  SigningInv /\ MovesInv /\ [SigningNext]_signingVars => MovesInv'
<1> SUFFICES ASSUME SigningInv, MovesInv, [SigningNext]_signingVars PROVE MovesInv'
  OBVIOUS
<1>1. CASE MoveAlias
  <2>1. moves' = moves + 1 /\ moves < MaxMoves /\ moves \in Nat /\ discovery' = discovery
    BY <1>1 DEF MoveAlias, MovesInv
  <2> QED BY <2>1, SigningAssumption DEF MovesInv
<1>2. ASSUME NEW k \in Keys, Toggle(k) PROVE MovesInv'
  BY <1>2, OnlyKept DEF Toggle, Only
<1>3. CASE UNCHANGED signingVars
  BY <1>3, OnlyKept DEF signingVars, Only
<1>4. ASSUME NEW i \in Instances, InstanceStep(i) PROVE MovesInv'
  <2>0. signer \in [Instances -> Keys \union {NoKey}]
    BY DEF SigningInv, SignerInv
  <2>1. CASE NewKMS(i)
    <3>1. /\ backend = "kms" /\ signer' = [signer EXCEPT ![i] = alias]
          /\ UNCHANGED <<backend, alias, moves, jwks, discovery, tokens>>
      BY <2>1 DEF NewKMS
    <3>2. \A k \in Keys : Only(k) => Only(k)'
      BY <2>0, <3>1 DEF Only
    <3> QED BY <3>1, <3>2, OnlyKept
  <2>2. CASE NewInMemory(i)
    <3>1. PICK k \in Keys \ KnownKeys : signer' = [signer EXCEPT ![i] = k]
      BY <2>2 DEF NewInMemory
    <3>2. /\ backend = "memory" /\ moves < MaxMoves /\ moves \in Nat
          /\ moves' = IF KnownKeys = {NoKey} THEN moves ELSE moves + 1
          /\ UNCHANGED <<backend, alias, jwks, discovery, tokens>>
      BY <2>2 DEF NewInMemory, MovesInv
    <3>3. CASE KnownKeys = {NoKey}
      <4>1. /\ \A j \in Instances : signer[j] = NoKey
            /\ \A t \in tokens : t.kid = NoKey
            /\ \A jwk \in jwks : jwk.kid = NoKey
        BY <3>3 DEF KnownKeys
      <4>2. tokens = {} /\ jwks = {}
        BY <4>1, SigningAssumption DEF SigningInv, TokensInv, JwksInv
      <4>3. Only(k)'
        BY <2>0, <3>1, <3>2, <4>1, <4>2 DEF Only
      <4> QED BY <3>1, <3>2, <3>3, <4>3 DEF MovesInv
    <3>4. CASE KnownKeys # {NoKey}
      BY <3>2, <3>4, SigningAssumption DEF MovesInv
    <3> QED BY <3>3, <3>4
  <2>3. CASE Discard(i)
    <3>1. /\ signer' = [signer EXCEPT ![i] = NoKey]
          /\ UNCHANGED <<backend, alias, moves, jwks, discovery, tokens>>
      BY <2>3 DEF Discard
    <3>2. \A k \in Keys : Only(k) => Only(k)'
      BY <2>0, <3>1 DEF Only
    <3> QED BY <3>1, <3>2, OnlyKept
  <2>4. CASE WriteJwkSet(i)
    <3>1. /\ signer[i] # NoKey /\ \A jwk \in jwks' : jwk.kid = signer[i]
          /\ UNCHANGED <<backend, alias, moves, signer, discovery, tokens>>
      BY <2>4 DEF WriteJwkSet, PublicKey
    <3>2. \A k \in Keys : Only(k) => Only(k)'
      BY <3>1 DEF Only
    <3> QED BY <3>1, <3>2, OnlyKept
  <2>5. CASE WriteDiscoveryDocument(i)
    BY <2>5, OnlyKept DEF WriteDiscoveryDocument, Only
  <2>6. CASE Sign(i)
    <3>1. /\ signer[i] # NoKey
          /\ UNCHANGED <<backend, alias, moves, signer, jwks, discovery>>
      BY <2>6 DEF Sign
    <3>2. \A t \in tokens' : t \in tokens \/ t.kid = signer[i]
      BY <2>6 DEF Sign
    <3>3. \A k \in Keys : Only(k) => Only(k)'
      BY <3>1, <3>2 DEF Only
    <3> QED BY <3>1, <3>3, OnlyKept
  <2> QED BY <1>4, <2>1, <2>2, <2>3, <2>4, <2>5, <2>6 DEF InstanceStep
<1> QED BY <1>1, <1>2, <1>3, <1>4 DEF SigningNext

\* The algorithm of a key is in the discovery document, but for P-521.
LEMMA AlgorithmAdvertised ==
  ASSUME NEW spec \in Specs, spec # "ECC_NIST_P521"
  PROVE  newKmsKey[spec].algorithm \in signingAlgorithms
BY DEF Specs, newKmsKey, signingAlgorithms

\* Theorem.  Until the alias moves, or a key is generated anew, every token
\* verifies with the published key and is of an algorithm that is advertised,
\* in whatever order instances started, signed and published.
THEOREM VerifiableUntilMove == SigningSpec => []UnverifiableOnlyAfterMove
<1>1. SigningInv /\ MovesInv => UnverifiableOnlyAfterMove
  <2> SUFFICES ASSUME SigningInv, MovesInv, moves = 0, NEW t \in tokens, NEW jwk \in jwks
               PROVE  Verifies(t, jwk) /\ Advertised(t)
    BY DEF UnverifiableOnlyAfterMove
  <2>1. t.kid = jwk.kid
    BY DEF MovesInv, Only
  <2>2. Verifies(t, jwk)
    BY <2>1, AlgorithmMatches DEF SigningInv, JwksInv, TokensInv, Verifies
  <2>3. Advertised(t)
    BY AlgorithmAdvertised DEF SigningInv, TokensInv, MovesInv, Advertised
  <2> QED BY <2>2, <2>3
<1> QED BY <1>1, InitSigning, SigningStep, InitMoves, MovesStep, PTL DEF SigningSpec

-------------------------------------------------------------------------------
(* The types.                                                              *)

\* Only keys for signing are resolved, and one key is published at a time.
UsageInv ==
  /\ backend \in {"kms", "memory"}
  /\ backend = "memory" => \A k \in Keys : keys[k].usage = "SIGN_VERIFY"
  /\ \A i \in Instances : signer[i] # NoKey => keys[signer[i]].usage = "SIGN_VERIFY"
  /\ jwks = {} \/ \E jwk : jwks = {jwk}

LEMMA UsageStep ==
  SigningInv /\ UsageInv /\ [SigningNext]_signingVars => UsageInv'
<1> SUFFICES ASSUME SigningInv, UsageInv, [SigningNext]_signingVars PROVE UsageInv'
  OBVIOUS
<1>0. KeysInv /\ signer \in [Instances -> Keys \union {NoKey}]
  BY DEF SigningInv, SignerInv
<1>1. CASE MoveAlias \/ UNCHANGED signingVars
  BY <1>1 DEF MoveAlias, signingVars, UsageInv
<1>2. ASSUME NEW k \in Keys, Toggle(k) PROVE UsageInv'
  <2>1. \A m \in Keys : keys'[m].usage = keys[m].usage
    BY <1>0, <1>2 DEF Toggle, KeysInv
  <2> QED BY <1>0, <1>2, <2>1 DEF Toggle, UsageInv
<1>3. ASSUME NEW i \in Instances, InstanceStep(i) PROVE UsageInv'
  <2>1. CASE NewKMS(i)
    BY <1>0, <2>1 DEF NewKMS, Resolvable, UsageInv
  <2>2. CASE NewInMemory(i)
    BY <1>0, <2>2 DEF NewInMemory, UsageInv
  <2>3. CASE Discard(i)
    BY <1>0, <2>3 DEF Discard, UsageInv
  <2>4. CASE WriteJwkSet(i)
    BY <2>4 DEF WriteJwkSet, UsageInv
  <2>5. CASE WriteDiscoveryDocument(i)
    BY <2>5 DEF WriteDiscoveryDocument, UsageInv
  <2>6. CASE Sign(i)
    BY <2>6 DEF Sign, UsageInv
  <2> QED BY <1>3, <2>1, <2>2, <2>3, <2>4, <2>5, <2>6 DEF InstanceStep
<1> QED BY <1>1, <1>2, <1>3 DEF SigningNext

\* Theorem.  The types; an instance only ever holds a key that is one for
\* signing.
THEOREM SigningTypeCorrect == SigningSpec => []SigningTypeOK
<1>1. SigningInit => UsageInv
  BY DEF SigningInit, UsageInv
<1>2. SigningInv /\ MovesInv /\ UsageInv => SigningTypeOK
  <2> SUFFICES ASSUME SigningInv, MovesInv, UsageInv PROVE SigningTypeOK
    OBVIOUS
  <2>1. Cardinality(jwks) <= 1
    <3>1. CASE jwks = {}
      BY <3>1, FS_EmptySet
    <3>2. ASSUME NEW jwk, jwks = {jwk} PROVE Cardinality(jwks) <= 1
      BY <3>2, FS_Singleton
    <3> QED BY <3>1, <3>2 DEF UsageInv
  <2>2. \A t \in tokens : t.kid \in Keys /\ t.alg \in DOMAIN Jwa
    BY DEF SigningInv, TokensInv, Specs, newKmsKey, Jwa
  <2> QED BY <2>1, <2>2 DEF SigningInv, KeysInv, SignerInv, MovesInv, UsageInv, SigningTypeOK
<1> QED BY <1>1, <1>2, InitSigning, SigningStep, InitMoves, MovesStep, UsageStep, PTL
        DEF SigningSpec
===============================================================================
