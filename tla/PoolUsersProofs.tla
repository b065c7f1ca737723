-------------------------- MODULE PoolUsersProofs --------------------------
(* Theorems about the two users of ThreadPool, Baw and Console.  baw::run,   *)
(* for any input, workers and node size, uses its pool as ThreadPool has it, *)
(* queues every callsign of its input before it shuts the pool down, and     *)
(* never returns once it has opened the state file.  The console, for any    *)
(* number of threads that print, writes nothing more often than it was said. *)
EXTENDS Baw, Console, ThreadPoolProofs

\* The lines whose callsigns have been queued come before this one.
Coming == IF main = "pushing" /\ stdin # "fail" THEN next - 1 ELSE next

\* What the loop knows of its input.
MainInv ==
    /\ input \in Inputs /\ next \in 1 .. (Len(input.lines) + 1)
    /\ stdin \in {"good", "eof", "fail"}
    /\ stdin # "good" => next = Len(input.lines) + 1
    /\ stdin = "eof" => next > 1 /\ ~input.terminated /\ call = input.lines[next - 1]
    /\ main = "pushing" => /\ next > 1 /\ call = input.lines[next - 1] /\ ~Blank(call)
                           /\ stdin = "fail" => ~input.terminated
    /\ phase = "shutdown" => main = "joining" /\ stdin = "fail"
    /\ main \in {"opening", "reading", "pushing"} => phase = "open"

\* The lines that the callsigns queued so far come from: each of those before the next one
\* once, until the end of the input has been found.
Progress(from) ==
    /\ from \in [CallsSent -> CallLines] /\ FromLines(from)
    /\ stdin # "fail" \/ main = "pushing" =>
          \A i, j \in CallsSent : i < j => from[i] < from[j]
    /\ \A k \in CallLines : (\E i \in CallsSent : from[i] = k) <=> k < Coming

BawInv == PoolInv /\ MainInv /\ \E from : Progress(from)

\* What is known of a line.
LEMMA LineFacts ==
  ASSUME MainInv
  PROVE  /\ Len(input.lines) \in Nat /\ next \in Nat
         /\ DOMAIN input.lines = 1 .. Len(input.lines)
         /\ input.terminated \in BOOLEAN
         /\ \A k \in 1 .. Len(input.lines) : ~Blank(input.lines[k]) => input.lines[k] \in Tasks
         /\ CallLines \subseteq 1 .. Len(input.lines)
  <1>1. input \in Inputs
    BY DEF MainInv
  <1>2. input.lines \in Seq(Texts) /\ input.terminated \in BOOLEAN
    BY <1>1, InputsAssumption
  <1>3. \A k \in DOMAIN input.lines : ~Blank(input.lines[k]) => input.lines[k] \in Tasks
    BY <1>1, InputsAssumption DEF Blank
  <1>4. DOMAIN input.lines = 1 .. Len(input.lines) /\ Len(input.lines) \in Nat
    BY <1>2
  <1>5. next \in Nat
    BY <1>4 DEF MainInv
  <1> QED
    BY <1>2, <1>3, <1>4, <1>5 DEF CallLines

\* The positions of callsigns in what was sent.
LEMMA SentFacts ==
  ASSUME PoolInv
  PROVE  /\ sent \in Seq(Messages) /\ Len(sent) \in Nat /\ DOMAIN sent = 1 .. Len(sent)
         /\ CallsSent \subseteq 1 .. Len(sent)
  BY DEF PoolInv, PoolTypeOK, QueueTypeOK, CallsSent

-----------------------------------------------------------------------------
(* baw::run uses its pool as ThreadPool has it.                            *)

LEMMA BawPoolStep ==
  ASSUME MainInv, [BawNext]_bawVars
  PROVE  [GracefulNext]_vars \/ OpenFails
  <1>1. CASE MainStep
    <2>1. CASE OpenStateFile \/ ReadCall
      BY <2>1 DEF OpenStateFile, ReadCall, queueVars, poolVars, vars
    <2>2. CASE OpenFails
      BY <2>2
    <2>3. CASE PushCall
      <3>1. call \in Tasks
        <4>1. main = "pushing"
          BY <2>3 DEF PushCall
        <4>2. call = input.lines[next - 1] /\ ~Blank(call) /\ next - 1 \in 1 .. Len(input.lines)
          BY <4>1, LineFacts DEF MainInv
        <4> QED
          BY <4>2, LineFacts
      <3> QED
        BY <2>3, <3>1, OwnerAssumption DEF PushCall, GracefulNext, PoolStep
    <2>4. CASE EndOfInput
      BY <2>4 DEF EndOfInput, GracefulNext
    <2>5. CASE Leave
      BY <2>5 DEF Leave, GracefulNext, PoolStep
    <2>6. CASE PusherStep(Owner) \/ PushStop
      BY <2>6, OwnerAssumption DEF GracefulNext, PoolStep
    <2> QED
      BY <1>1, <2>1, <2>2, <2>3, <2>4, <2>5, <2>6 DEF MainStep
  <1>2. CASE \E w \in Poppers : PoolThreadStep(w) \/ WokenForNothing(w)
    BY <1>2 DEF PoolThreadStep, GracefulNext, PoolStep
  <1>3. CASE UNCHANGED bawVars
    BY <1>3 DEF bawVars, vars
  <1> QED
    BY <1>1, <1>2, <1>3 DEF BawNext

-----------------------------------------------------------------------------
(* The loop over standard input.                                           *)

\* What a pool's own steps leave alone.
LEMMA PoolStepsRest ==
  ASSUME \/ PusherStep(Owner) \/ PushStop
         \/ \E w \in Poppers : WorkerStep(w) \/ WokenForNothing(w)
  PROVE  /\ phase' = phase
         /\ sent' = sent \/ sent' = Append(sent, Terminate)
  <1>1. CASE PusherStep(Owner)
    BY <1>1 DEF PusherStep, FinishPush, ConstructBack, AdvanceLast, ConstructFront,
                RetreatFirst, NewFrontNode, FillFront, poolVars
  <1>2. CASE PushStop
    BY <1>2 DEF PushStop, PushBack, PushFront, Guarded
  <1>3. CASE \E w \in Poppers : WorkerStep(w) \/ WokenForNothing(w)
    BY <1>3 DEF WorkerStep, WokenForNothing, WorkerPop, WorkerPopped, RunTask, PopWait,
                PopLock, TakeFront, AdvanceFirst, SpuriousWake, poolVars
  <1> QED
    BY <1>1, <1>2, <1>3

LEMMA MainStepInv ==
  ASSUME MainInv, [BawNext]_bawVars
  PROVE  MainInv'
  <1>1. CASE OpenStateFile
    BY <1>1 DEF OpenStateFile, MainInv, poolVars
  <1>2. CASE OpenFails
    BY <1>2 DEF OpenFails, ShutdownNow, BeginShutdown, MainInv
  <1>3. CASE ReadCall
    <2>1. /\ main = "reading" /\ stdin # "fail" /\ phase' = phase /\ input' = input
          /\ main' = IF Blank(call') THEN "reading" ELSE "pushing"
          /\ GetLine
      BY <1>3 DEF ReadCall, poolVars
    <2>2. phase # "shutdown" /\ stdin \in {"good", "eof"} /\ input \in Inputs
      BY <2>1 DEF MainInv
    <2>3. PICK n \in Nat, x \in Nat : n = Len(input.lines) /\ x = next /\ x >= 1 /\ x <= n + 1
      BY LineFacts DEF MainInv
    <2>4. CASE /\ stdin = "good" /\ next <= Len(input.lines)
               /\ call' = input.lines[next]
               /\ next' = next + 1
               /\ stdin' = IF next = Len(input.lines) /\ ~input.terminated THEN "eof" ELSE "good"
      <3>1. next' = x + 1 /\ x <= n
        BY <2>3, <2>4
      <3>2. next' \in 1 .. (n + 1) /\ next' - 1 = x /\ next' > 1
        BY <2>3, <3>1
      <3>3. stdin' \in {"good", "eof"} /\ (stdin' = "eof" => x = n /\ ~input.terminated)
        BY <2>3, <2>4
      <3>4. call' = input.lines[next' - 1]
        BY <2>3, <2>4, <3>2
      <3>5. stdin' # "good" => next' = n + 1
        BY <3>1, <3>3
      <3> QED
        BY <2>1, <2>2, <2>3, <3>2, <3>3, <3>4, <3>5 DEF MainInv
    <2>5. CASE /\ stdin = "good" /\ next > Len(input.lines)
               /\ call' = NoText
               /\ stdin' = "fail"
               /\ UNCHANGED next
      <3>1. Blank(call') /\ main' = "reading"
        <4>1. Blank(NoText)
          BY DEF Blank, NoText
        <4> QED
          BY <2>1, <2>5, <4>1
      <3>2. next' = Len(input.lines) + 1
        <4>1. x > n /\ next' = x
          BY <2>3, <2>5
        <4>2. x = n + 1
          BY <2>3, <4>1
        <4> QED
          BY <2>3, <4>1, <4>2
      <3> QED
        BY <2>1, <2>2, <2>3, <2>5, <3>1, <3>2 DEF MainInv
    <2>6. CASE /\ stdin = "eof"
               /\ stdin' = "fail"
               /\ UNCHANGED <<call, next>>
      BY <2>1, <2>2, <2>3, <2>6 DEF MainInv, Blank
    <2> QED
      BY <2>1, <2>4, <2>5, <2>6 DEF GetLine
  <1>4. CASE PushCall
    BY <1>4 DEF PushCall, Push, poolVars, MainInv
  <1>5. CASE EndOfInput
    BY <1>5 DEF EndOfInput, Shutdown, BeginShutdown, MainInv
  <1>6. CASE Leave
    BY <1>6 DEF Leave, JoinEach, MainInv
  <1>7. CASE UNCHANGED mainVars /\ phase' = phase
    BY <1>7 DEF mainVars, MainInv
  <1>8. CASE /\ UNCHANGED mainVars
             /\ \/ PusherStep(Owner) \/ PushStop
                \/ \E w \in Poppers : WorkerStep(w) \/ WokenForNothing(w)
    BY <1>7, <1>8, PoolStepsRest
  <1>9. CASE UNCHANGED bawVars
    BY <1>7, <1>9 DEF bawVars, mainVars
  <1> QED
    BY <1>1, <1>2, <1>3, <1>4, <1>5, <1>6, <1>8, <1>9 DEF BawNext, MainStep, PoolThreadStep

\* A step that queues no callsign and passes over no line that has one.
LEMMA ProgressStays ==
  ASSUME NEW from, Progress(from), input' = input, CallsSent' = CallsSent,
         \A i \in CallsSent : sent'[i] = sent[i],
         stdin = "fail" => stdin' = "fail",
         stdin' # "fail" \/ main' = "pushing" => stdin # "fail" \/ main = "pushing",
         \A k \in CallLines : k < Coming' <=> k < Coming
  PROVE  Progress(from)'
  <1>1. CallLines' = CallLines
    BY DEF CallLines, Blank
  <1>3. FromLines(from)'
    BY <1>1 DEF Progress, FromLines
  <1> QED
    BY <1>1, <1>3 DEF Progress

\* Sending the terminate task.
LEMMA TerminateSent ==
  ASSUME PoolInv, sent' = sent \/ sent' = Append(sent, Terminate)
  PROVE  CallsSent' = CallsSent /\ \A i \in CallsSent : sent'[i] = sent[i]
  <1>1. CASE sent' = sent
    BY <1>1 DEF CallsSent
  <1>2. CASE sent' = Append(sent, Terminate)
    <2>1. /\ sent \in Seq(Messages) /\ Len(sent) \in Nat /\ DOMAIN sent = 1 .. Len(sent)
          /\ Terminate \in Messages
      BY SentFacts, OutcomeFacts
    <2>2. /\ DOMAIN sent' = 1 .. (Len(sent) + 1) /\ sent'[Len(sent) + 1] = Terminate
          /\ \A i \in 1 .. Len(sent) : sent'[i] = sent[i]
      BY <1>2, <2>1
    <2> QED
      BY <2>1, <2>2 DEF CallsSent
  <1> QED
    BY <1>1, <1>2

\* The callsign of the line before the next one is queued: for the first time, or, at the
\* end of the input, again.
LEMMA PushProgress ==
  ASSUME BawInv, PushCall
  PROVE  \E from : Progress(from)'
  <1>1. PICK from : Progress(from)
    BY DEF BawInv
  <1>2. /\ main = "pushing" /\ main' = "reading" /\ sent' = Append(sent, call)
        /\ UNCHANGED <<input, next, stdin>>
    BY DEF PushCall, Push, PushBack, Guarded
  <1>3. /\ sent \in Seq(Messages) /\ Len(sent) \in Nat /\ DOMAIN sent = 1 .. Len(sent)
        /\ CallsSent \subseteq 1 .. Len(sent)
    BY SentFacts DEF BawInv
  <1>4. /\ Len(input.lines) \in Nat /\ next \in Nat /\ DOMAIN input.lines = 1 .. Len(input.lines)
        /\ CallLines \subseteq 1 .. Len(input.lines)
        /\ \A k \in 1 .. Len(input.lines) : ~Blank(input.lines[k]) => input.lines[k] \in Tasks
    BY LineFacts DEF BawInv
  <1>5. PICK n \in Nat, last1 \in Nat, lines1 \in Nat :
            n = Len(sent) + 1 /\ last1 = next - 1 /\ lines1 = Len(input.lines)
    <2>1. next > 1
      BY <1>2 DEF BawInv, MainInv
    <2>2. Len(sent) + 1 \in Nat /\ next - 1 \in Nat
      BY <1>3, <1>4, <2>1
    <2> QED
      BY <1>4, <2>2
  <1>6. /\ last1 \in CallLines /\ call = input.lines[last1] /\ call # Terminate
        /\ last1 >= 1 /\ last1 <= lines1 /\ next = last1 + 1
        /\ stdin = "fail" => ~input.terminated /\ last1 = lines1
    <2>1. /\ next > 1 /\ call = input.lines[next - 1] /\ ~Blank(call)
          /\ stdin = "fail" => ~input.terminated /\ next = Len(input.lines) + 1
          /\ next <= Len(input.lines) + 1
      BY <1>2, <1>4 DEF BawInv, MainInv
    <2>2. last1 >= 1 /\ last1 <= lines1 /\ next = last1 + 1 /\ (stdin = "fail" => last1 = lines1)
      BY <1>4, <1>5, <2>1
    <2>3. last1 \in DOMAIN input.lines
      BY <1>4, <1>5, <2>2
    <2> QED
      BY <1>4, <1>5, <2>1, <2>2, <2>3 DEF CallLines, Tasks
  <1>7. /\ DOMAIN sent' = 1 .. n /\ sent'[n] = call
        /\ \A i \in 1 .. Len(sent) : sent'[i] = sent[i]
    <2>1. call \in Messages
      BY <1>4, <1>6 DEF CallLines, Tasks
    <2> QED
      BY <1>2, <1>3, <1>5, <2>1
  <1>8. CallsSent' = CallsSent \cup {n} /\ n \notin CallsSent /\ \A i \in CallsSent : i < n /\ i \in Nat
    BY <1>3, <1>5, <1>6, <1>7 DEF CallsSent
  <1>9. CallLines' = CallLines
    BY <1>2 DEF CallLines, Blank
  <1>f. PICK f : f = [i \in CallsSent \cup {n} |-> IF i = n THEN last1 ELSE from[i]]
    OBVIOUS
  <1>10. /\ f \in [CallsSent' -> CallLines'] /\ f[n] = last1
         /\ \A i \in CallsSent : f[i] = from[i] /\ from[i] \in CallLines /\ from[i] \in Nat
    <2>1. from \in [CallsSent -> CallLines]
      BY <1>1 DEF Progress
    <2>2. \A i \in CallsSent : from[i] \in CallLines /\ from[i] \in Nat
      <3>1. \A k \in CallLines : k \in Nat
        BY <1>4
      <3> QED
        BY <2>1, <3>1
    <2>3. f \in [CallsSent \cup {n} -> CallLines]
      BY <1>6, <1>f, <2>2
    <2>4. f[n] = last1 /\ \A i \in CallsSent : f[i] = from[i]
      BY <1>8, <1>f
    <2> QED
      BY <1>8, <1>9, <2>2, <2>3, <2>4
  <1>11. \A i, j \in CallsSent : i < j => from[i] < from[j]
    BY <1>1, <1>2 DEF Progress
  <1>12. \A k \in CallLines : (\E i \in CallsSent : from[i] = k) <=> k < Coming
    BY <1>1 DEF Progress
  <1>13. /\ stdin # "fail" => Coming = last1
         /\ stdin = "fail" => Coming = last1 + 1
    BY <1>2, <1>5, <1>6 DEF Coming
  <1>14. Coming' = last1 + 1
    BY <1>2, <1>6 DEF Coming
  <1>15. ASSUME NEW i \in CallsSent
         PROVE  from[i] <= last1 /\ (stdin # "fail" => from[i] < last1)
    <2>1. from[i] < Coming /\ from[i] \in Nat
      BY <1>10, <1>12
    <2> QED
      BY <1>13, <2>1
  <1>16. \A i, j \in CallsSent' :
            i < j => \/ f[i] < f[j]
                     \/ /\ ~input'.terminated /\ stdin' = "fail"
                        /\ f[i] = f[j] /\ f[j] = Len(input'.lines)
    <2> TAKE i, j \in CallsSent'
    <2> HAVE i < j
    <2>1. i \in CallsSent
      BY <1>5, <1>8
    <2>2. CASE j \in CallsSent
      BY <1>10, <1>11, <2>1, <2>2
    <2>3. CASE j = n
      <3>1. f[i] = from[i] /\ f[j] = last1 /\ from[i] \in Nat
        BY <1>10, <2>1, <2>3
      <3>2. from[i] <= last1 /\ (stdin # "fail" => from[i] < last1)
        BY <1>15, <2>1
      <3>3. stdin = "fail" =>
                ~input'.terminated /\ stdin' = "fail" /\ last1 = Len(input'.lines)
        BY <1>2, <1>5, <1>6
      <3> QED
        BY <1>5, <3>1, <3>2, <3>3
    <2> QED
      BY <1>8, <2>2, <2>3
  <1>17. \A i, j, k \in CallsSent' : i < j /\ j < k => f[i] < f[k]
    <2> TAKE i, j, k \in CallsSent'
    <2> HAVE i < j /\ j < k
    <2>1. i \in CallsSent /\ j \in CallsSent
      BY <1>5, <1>8
    <2>2. f[i] = from[i] /\ from[i] < from[j] /\ from[i] \in Nat /\ from[j] \in Nat
      BY <1>10, <1>11, <2>1
    <2>3. CASE k \in CallsSent
      <3>1. i \in Nat /\ j \in Nat /\ k \in Nat
        BY <1>8, <2>1, <2>3
      <3>2. i < k
        BY <3>1
      <3> QED
        BY <1>10, <1>11, <2>1, <2>3, <3>2
    <2>4. CASE k = n
      <3>1. f[k] = last1 /\ from[j] <= last1
        BY <1>10, <1>15, <2>1, <2>4
      <3> QED
        BY <1>5, <2>2, <3>1
    <2> QED
      BY <1>8, <2>3, <2>4
  <1>18. \A i \in CallsSent' : sent'[i] = input'.lines[f[i]]
    <2> TAKE i \in CallsSent'
    <2>1. CASE i \in CallsSent
      <3>1. sent[i] = input.lines[from[i]] /\ sent'[i] = sent[i]
        BY <1>1, <1>3, <1>7, <2>1 DEF Progress, FromLines
      <3> QED
        BY <1>2, <1>10, <2>1, <3>1
    <2>2. CASE i = n
      BY <1>2, <1>6, <1>7, <1>10, <2>2
    <2> QED
      BY <1>8, <2>1, <2>2
  <1>19. \A k \in CallLines' : (\E i \in CallsSent' : f[i] = k) <=> k < Coming'
    <2> TAKE k \in CallLines'
    <2>1. k \in CallLines /\ k \in Nat
      BY <1>4, <1>9
    <2>2. (\E i \in CallsSent' : f[i] = k) <=> k < Coming \/ k = last1
      BY <1>8, <1>10, <1>12, <2>1
    <2> QED
      BY <1>13, <1>14, <2>1, <2>2
  <1>20. stdin' # "fail" => \A i, j \in CallsSent' : i < j => f[i] < f[j]
    <2>1. \A i \in CallsSent' : f[i] \in Nat
      BY <1>5, <1>8, <1>10
    <2> QED
      BY <1>16, <2>1
  <1>21. FromLines(f)'
    BY <1>16, <1>17, <1>18 DEF FromLines
  <1>22. Progress(f)'
    BY <1>2, <1>10, <1>19, <1>20, <1>21 DEF Progress
  <1> QED
    BY <1>22

LEMMA BawStepInv ==
  ASSUME BawInv, [BawNext]_bawVars
  PROVE  BawInv'
  <1>1. PoolInv' /\ MainInv'
    BY BawPoolStep, PoolStepInv, MainStepInv DEF BawInv, OpenFails, PoolNext
  <1>2. PICK from : Progress(from)
    BY DEF BawInv
  <1>3. CASE OpenStateFile \/ OpenFails \/ EndOfInput \/ Leave
    <2>1. /\ main # "pushing" /\ main' # "pushing" /\ sent' = sent
          /\ UNCHANGED <<input, next, stdin, call>>
      BY <1>3 DEF OpenStateFile, OpenFails, EndOfInput, Leave, Shutdown, ShutdownNow, BeginShutdown,
                  JoinEach, queueVars, BawInv, MainInv
    <2>2. CallsSent' = CallsSent /\ Coming' = Coming
      BY <2>1 DEF CallsSent, Coming
    <2>3. Progress(from)'
      BY <1>2, <2>1, <2>2, ProgressStays
    <2> QED
      BY <1>1, <2>3 DEF BawInv
  <1>4. CASE ReadCall
    <2>1. /\ main = "reading" /\ stdin # "fail" /\ sent' = sent /\ input' = input
          /\ main' = IF Blank(call') THEN "reading" ELSE "pushing"
          /\ GetLine
      BY <1>4 DEF ReadCall, queueVars
    <2>2. CallsSent' = CallsSent /\ Coming = next
      BY <2>1 DEF CallsSent, Coming
    <2>3. /\ next \in Nat /\ CallLines \subseteq Nat
      BY LineFacts DEF BawInv
    <2>4. \A k \in CallLines : k < Coming' <=> k < Coming
      <3>1. CASE next' = next
        <4>1. CASE main' = "reading"
          BY <2>1, <2>2, <3>1, <4>1 DEF Coming
        <4>2. CASE main' # "reading"
          <5>1. ~Blank(call')
            BY <2>1, <4>2
          <5>2. stdin' = "fail"
            <6>1. next' # next + 1
              BY <2>3, <3>1
            <6>2. call' # NoText
              <7>1. Blank(NoText)
                BY DEF Blank, NoText
              <7> QED
                BY <5>1, <7>1
            <6> QED
              BY <2>1, <6>1, <6>2 DEF GetLine
          <5> QED
            BY <2>2, <3>1, <5>2 DEF Coming
        <4> QED
          BY <4>1, <4>2
      <3>2. CASE next' # next
        <4>1. call' = input.lines[next] /\ next' = next + 1 /\ stdin' # "fail"
          BY <2>1, <3>2 DEF GetLine
        <4>2. CASE Blank(call')
          <5>1. next \notin CallLines /\ Coming' = next + 1
            BY <2>1, <4>1, <4>2 DEF CallLines, Coming
          <5> QED
            BY <2>2, <2>3, <5>1
        <4>3. CASE ~Blank(call')
          <5>1. Coming' = next
            BY <2>1, <2>3, <4>1, <4>3 DEF Coming
          <5> QED
            BY <2>2, <5>1
        <4> QED
          BY <4>2, <4>3
      <3> QED
        BY <3>1, <3>2
    <2>5. Progress(from)'
      BY <1>2, <2>1, <2>2, <2>4, ProgressStays
    <2> QED
      BY <1>1, <2>5 DEF BawInv
  <1>5. CASE PushCall
    BY <1>1, <1>5, PushProgress DEF BawInv
  <1>6. CASE UNCHANGED mainVars /\ (sent' = sent \/ sent' = Append(sent, Terminate))
    <2>1. CallsSent' = CallsSent /\ \A i \in CallsSent : sent'[i] = sent[i]
      BY <1>6, TerminateSent DEF BawInv
    <2>2. Coming' = Coming
      BY <1>6 DEF mainVars, Coming
    <2>3. Progress(from)'
      BY <1>2, <1>6, <2>1, <2>2, ProgressStays DEF mainVars
    <2> QED
      BY <1>1, <2>3 DEF BawInv
  <1>7. CASE /\ UNCHANGED mainVars
             /\ \/ PusherStep(Owner) \/ PushStop
                \/ \E w \in Poppers : WorkerStep(w) \/ WokenForNothing(w)
    BY <1>6, <1>7, PoolStepsRest
  <1>8. CASE UNCHANGED bawVars
    BY <1>6, <1>8 DEF bawVars, mainVars
  <1> QED
    BY <1>3, <1>4, <1>5, <1>7, <1>8 DEF BawNext, MainStep, PoolThreadStep

LEMMA BawInitInv == BawInit => BawInv
  <1> SUFFICES ASSUME BawInit PROVE BawInv
    OBVIOUS
  <1>1. PoolInv
    BY PoolInitInv DEF BawInit
  <1>2. /\ main = "opening" /\ input \in Inputs /\ next = 1 /\ stdin = "good" /\ phase = "open"
        /\ sent = <<>>
    BY DEF BawInit, PoolInit, QueueInit
  <1>3. Len(input.lines) \in Nat
    <2>1. input.lines \in Seq(Texts)
      BY <1>2, InputsAssumption
    <2> QED
      BY <2>1
  <1>4. MainInv
    BY <1>2, <1>3 DEF MainInv
  <1>5. CallsSent = {} /\ Coming = 1
    BY <1>2 DEF CallsSent, Coming
  <1>6. CallLines \subseteq 1 .. Len(input.lines)
    BY <1>4, LineFacts
  <1>7. Progress([i \in {} |-> 0])
    <2>1. [i \in {} |-> 0] \in [CallsSent -> CallLines]
      BY <1>5
    <2>2. \A k \in CallLines : ~(k < Coming)
      BY <1>3, <1>5, <1>6
    <2> QED
      BY <1>2, <1>5, <2>1, <2>2 DEF Progress, FromLines
  <1> QED
    BY <1>1, <1>4, <1>7 DEF BawInv

LEMMA BawInvariant == BawSpec => []BawInv
  BY BawInitInv, BawStepInv, PTL DEF BawSpec

\* At the end of the input no line is left to come.
LEMMA BawInvImplies == BawInv => AllCallsQueued
  <1> SUFFICES ASSUME BawInv PROVE AllCallsQueued
    OBVIOUS
  <1>1. PICK from : Progress(from)
    BY DEF BawInv
  <1>2. from \in [CallsSent -> CallLines] /\ FromLines(from)
    BY <1>1 DEF Progress
  <1>3. ASSUME phase = "shutdown"
        PROVE  \A k \in CallLines : \E i \in CallsSent : from[i] = k
    <2>1. Coming = Len(input.lines) + 1
      BY <1>3 DEF BawInv, MainInv, Coming
    <2>2. \A k \in CallLines : k < Coming
      BY <2>1, LineFacts DEF BawInv
    <2> QED
      BY <1>1, <2>2 DEF Progress
  <1> QED
    BY <1>2, <1>3 DEF AllCallsQueued

-----------------------------------------------------------------------------
(* What the pool's threads do with the callsigns.                          *)

\* Unless the state file failed to open, the pool is used as shutdown() has it; no node_task
\* returns anything but 0, so that no thread ends and run has nothing to return after.
VisitsInv ==
    main \notin {"unwinding", "thrown"} =>
        Graceful /\ main # "returned" /\ \A w \in Poppers : stage[w] # "exited"

LEMMA NodesReturnZero ==
  ASSUME Outcomes = NodeOutcomes
  PROVE  \A m \in Messages : Outcomes[m] = {Zero}
  BY MessagesAssumption DEF NodeOutcomes, Contents

\* A task that was popped in order returns 0, and its thread pops again.
LEMMA NoThreadEnds ==
  ASSUME Outcomes = NodeOutcomes, Graceful, [GracefulNext]_vars,
         \A w \in Poppers : stage[w] # "exited"
  PROVE  \A w \in Poppers : stage'[w] # "exited"
  <1>1. ASSUME NEW w \in Poppers, RunTask(w)
        PROVE  \A v \in Poppers : stage'[v] # "exited"
    <2>1. stage \in [Poppers -> {"pop", "run", "exited"}] /\ result \in [Poppers -> {Zero, Nonzero}]
      BY DEF Graceful, PoolInv, PoolTypeOK
    <2>2. PICK i \in DOMAIN received : received[i] = hand[w]
      BY <1>1 DEF RunTask, Graceful, WorkersInv
    <2>3. Outcomes[hand[w]] = {Zero}
      BY <2>2, ReceivedWasSent, NodesReturnZero
    <2>4. result'[w] = Zero
      BY <1>1, <2>1, <2>3 DEF RunTask, Zero, Throw
    <2> QED
      BY <1>1, <2>1, <2>4 DEF RunTask
  <1>2. ASSUME NEW w \in Poppers, WorkerPop(w) \/ WorkerPopped(w) \/ WokenForNothing(w)
        PROVE  \A v \in Poppers : stage'[v] # "exited"
    <2>1. stage \in [Poppers -> {"pop", "run", "exited"}]
      BY DEF Graceful, PoolInv, PoolTypeOK
    <2> QED
      BY <1>2, <2>1 DEF WorkerPop, WorkerPopped, WokenForNothing, poolVars
  <1>3. CASE \/ \E p \in Pushers : PusherStep(p) \/ \E task \in Tasks : Push(p, task)
             \/ PushStop \/ JoinEach \/ Shutdown \/ UNCHANGED vars
    BY <1>3 DEF PusherStep, Push, PushStop, JoinEach, Shutdown, BeginShutdown, poolVars, vars
  <1> QED
    BY <1>1, <1>2, <1>3 DEF GracefulNext, PoolStep, WorkerStep

LEMMA VisitsInit ==
  ASSUME BawInit
  PROVE  VisitsInv
  <1>1. PoolInit /\ main = "opening" /\ \A w \in Poppers : stage[w] = "pop"
    BY DEF BawInit, PoolInit
  <1> QED
    BY <1>1, GracefulInit, MainAssumption DEF VisitsInv

LEMMA VisitsStep ==
  ASSUME Outcomes = NodeOutcomes, MainInv, VisitsInv, [BawNext]_bawVars
  PROVE  VisitsInv'
  <1>1. CASE main' \in {"unwinding", "thrown"}
    BY <1>1 DEF VisitsInv
  <1>2. CASE main' \notin {"unwinding", "thrown"}
    <2>1. main \notin {"unwinding", "thrown"}
      BY <1>2 DEF BawNext, bawVars, mainVars, MainStep, OpenStateFile, ReadCall, PushCall, EndOfInput,
                  OpenFails, Leave, PoolThreadStep
    <2>2. [GracefulNext]_vars
      BY <1>2, BawPoolStep DEF OpenFails
    <2>3. TasksReturnZero
      BY NodesReturnZero DEF TasksReturnZero, Tasks
    <2>4. Graceful' /\ \A w \in Poppers : stage'[w] # "exited"
      BY <2>1, <2>2, <2>3, GracefulStep, NoThreadEnds DEF VisitsInv
    <2>5. ~Leave
      BY <2>1, ThreadsAssumption DEF Leave, JoinEach, VisitsInv
    <2>6. main' # "returned"
      BY <1>2, <2>1, <2>5 DEF BawNext, bawVars, mainVars, MainStep, OpenStateFile, ReadCall, PushCall,
                              EndOfInput, OpenFails, PoolThreadStep, VisitsInv
    <2> QED
      BY <2>4, <2>6 DEF VisitsInv
  <1> QED
    BY <1>1, <1>2

LEMMA VisitsInvariant ==
  ASSUME Outcomes = NodeOutcomes
  PROVE  BawSpec => []VisitsInv
  <1>1. BawInit => VisitsInv
    BY VisitsInit
  <1>2. BawInv /\ VisitsInv /\ [BawNext]_bawVars => VisitsInv'
    BY VisitsStep DEF BawInv
  <1> QED
    BY <1>1, <1>2, BawInvariant, PTL DEF BawSpec

-----------------------------------------------------------------------------
(* baw::run uses its pool the way ThreadPool lets its owner use one.       *)
THEOREM RunUsesPool == BawSpec => PoolSpec
  <1>1. BawInit => PoolInit
    BY DEF BawInit
  <1>2. BawInv /\ [BawNext]_bawVars => [PoolNext]_vars
    BY BawPoolStep DEF BawInv, OpenFails, PoolNext
  <1> QED
    BY <1>1, <1>2, BawInvariant, PTL DEF BawSpec, PoolSpec

(* When run() shuts its pool down, it has queued the callsign of every     *)
(* line that has one.                                                      *)
THEOREM QueuedBeforeShutdown == BawSpec => []AllCallsQueued
  BY BawInvariant, BawInvImplies, PTL

(* The threads of run()'s pool never pop at the same time, and no callsign *)
(* that a move takes out of its node_task is popped more often than run()  *)
(* queued it, whichever shutdown comes.                                    *)
THEOREM NoVisitTwice == BawSpec => [](PopExclusive /\ OnceEach(Emptied))
  BY RunUsesPool, PoolTypeCorrect, NoTaskTwice, PTL

(* Unless the state file failed to open, the nodes are visited in the      *)
(* order of their lines: what the threads popped is a prefix of what run() *)
(* queued.                                                                 *)
THEOREM VisitsInOrder ==
  ASSUME Outcomes = NodeOutcomes
  PROVE  BawSpec => [](main \notin {"unwinding", "thrown"} => Fifo)
  <1>1. VisitsInv => (main \notin {"unwinding", "thrown"} => Fifo)
    BY CountersType DEF VisitsInv, Graceful, PoolInv, PoolTypeOK, SinglePusherInv, Fifo
  <1> QED
    BY <1>1, VisitsInvariant, PTL

(* Every node_task returns 0, the terminate task too, so no thread ends:   *)
(* run() never returns, whatever its input.                                *)
THEOREM RunNeverReturns ==
  ASSUME Outcomes = NodeOutcomes
  PROVE  BawSpec => [](main # "returned")
  <1>1. VisitsInv => main # "returned"
    BY DEF VisitsInv
  <1> QED
    BY <1>1, VisitsInvariant, PTL

-----------------------------------------------------------------------------
(* The console.                                                            *)

\* The console uses its pool as ThreadPool lets its owner use one.
LEMMA ConsolePoolStep ==
  ASSUME [ConsoleNext]_allVars
  PROVE  [PoolNext]_vars
  <1>1. CASE \E p \in Pushers : Say(p)
    BY <1>1 DEF Say, SayPlain, SayPrint, SayRoute, SayRest, Begin, QueueOut, PoolNext,
                GracefulNext, PoolStep
  <1>2. CASE (\E p \in Pushers : Pusher(p)) \/ Destroy
    BY <1>2 DEF Pusher, Destroy, PoolNext, GracefulNext, PoolStep
  <1>3. CASE \E w \in Poppers : ConsoleThread(w) \/ WokenForNothing(w)
    BY <1>3 DEF ConsoleThread, Write, WorkerStep, PoolNext, GracefulNext, PoolStep
  <1>4. CASE Exit
    BY <1>4 DEF Exit, PoolNext
  <1>5. CASE UNCHANGED allVars
    BY <1>5 DEF allVars, vars
  <1> QED
    BY <1>1, <1>2, <1>3, <1>4, <1>5 DEF ConsoleNext

\* What is on the screen, with the task that the thread is running, was popped.
ShownInv ==
    /\ Cardinality(Poppers) = 1
    /\ screen \in Seq(Messages)
    /\ \A m \in Messages, w \in Poppers :
          Cardinality(Positions(screen, m)) + (IF stage[w] = "run" /\ hand[w] = m THEN 1 ELSE 0)
              <= Cardinality(Positions(received, m))

LEMMA ShownFacts ==
  ASSUME PoolInv, ShownInv, NEW m
  PROVE  /\ received \in Seq(Contents) /\ screen \in Seq(Messages)
         /\ IsFiniteSet(Positions(received, m)) /\ Cardinality(Positions(received, m)) \in Nat
         /\ IsFiniteSet(Positions(screen, m)) /\ Cardinality(Positions(screen, m)) \in Nat
  <1>1. received \in Seq(Contents) /\ screen \in Seq(Messages)
    BY DEF PoolInv, PoolTypeOK, QueueTypeOK, ShownInv
  <1>2. /\ DOMAIN received = 1 .. Len(received) /\ Len(received) \in Int
        /\ DOMAIN screen = 1 .. Len(screen) /\ Len(screen) \in Int
    BY <1>1
  <1>3. IsFiniteSet(DOMAIN received) /\ IsFiniteSet(DOMAIN screen)
    BY <1>2, FS_Interval
  <1>4. Positions(received, m) \in SUBSET DOMAIN received
        /\ Positions(screen, m) \in SUBSET DOMAIN screen
    BY DEF Positions
  <1> QED
    BY <1>1, <1>3, <1>4, FS_Subset, FS_CardinalityType

\* Only the console's thread changes what was popped, the screen and its stage.
LEMMA ShownStep ==
  ASSUME PoolInv, ShownInv, [ConsoleNext]_allVars
  PROVE  ShownInv'
  <1>1. PICK only : Poppers = {only}
    BY FS_Singleton, ThreadsAssumption DEF ShownInv
  <1>2. /\ stage \in [Poppers -> {"pop", "run", "exited"}] /\ received \in Seq(Contents)
        /\ hand \in [Threads -> Contents \cup {None}] /\ only \in Poppers /\ only \in Threads
        /\ screen \in Seq(Messages)
    BY <1>1, ContentsFacts DEF PoolInv, PoolTypeOK, QueueTypeOK, ShownInv
  <1>3. CASE WorkerPopped(only) /\ UNCHANGED consoleVars
    <2>1. /\ stage[only] = "pop" /\ stage'[only] = "run" /\ hand' = hand /\ screen' = screen
          /\ received' = Append(received, hand[only]) /\ at[only] = "advance"
      BY <1>2, <1>3 DEF WorkerPopped, AdvanceFirst, consoleVars
    <2>2. hand[only] \in Contents
      BY <1>2, <2>1 DEF PoolInv, QueueInv, PointsOK
    <2> SUFFICES ASSUME NEW m \in Messages
                 PROVE  Cardinality(Positions(screen, m)) + (IF hand[only] = m THEN 1 ELSE 0)
                          <= Cardinality(Positions(received', m))
      BY <1>1, <2>1 DEF ShownInv, Positions
    <2>3. Cardinality(Positions(received', m))
              = Cardinality(Positions(received, m)) + (IF hand[only] = m THEN 1 ELSE 0)
      BY <1>2, <2>1, <2>2, PositionsAppend
    <2>4. Cardinality(Positions(screen, m)) <= Cardinality(Positions(received, m))
      BY <1>2, <2>1, ShownFacts DEF ShownInv
    <2> QED
      BY <2>3, <2>4, ShownFacts
  <1>4. CASE Write(only)
    <2>1. /\ stage[only] = "run" /\ received' = received /\ stage'[only] # "run"
          /\ screen' = IF hand[only] \in Tasks THEN Append(screen, hand[only]) ELSE screen
      BY <1>2, <1>4 DEF Write, RunTask
    <2>2. screen' \in Seq(Messages)
      BY <1>2, <2>1 DEF Tasks
    <2> SUFFICES ASSUME NEW m \in Messages
                 PROVE  Cardinality(Positions(screen', m)) <= Cardinality(Positions(received, m))
      <3>1. \A m \in Messages :
               Cardinality(Positions(screen', m)) <= Cardinality(Positions(received, m))
                  => Cardinality(Positions(screen', m)) + 0 <= Cardinality(Positions(received, m))
        <4> SUFFICES ASSUME NEW m \in Messages
                     PROVE  Cardinality(Positions(screen', m)) \in Nat
          OBVIOUS
        <4>1. CASE hand[only] \in Tasks
          BY <1>2, <2>1, <4>1, PositionsAppend, FS_CardinalityType DEF Tasks
        <4>2. CASE hand[only] \notin Tasks
          BY <2>1, <4>2, ShownFacts
        <4> QED
          BY <4>1, <4>2
      <3> QED
        BY <1>1, <2>1, <2>2, <3>1 DEF ShownInv, Positions
    <2>3. Cardinality(Positions(screen, m)) + (IF hand[only] = m THEN 1 ELSE 0)
              <= Cardinality(Positions(received, m))
      BY <1>2, <2>1 DEF ShownInv
    <2>4. CASE hand[only] \in Tasks
      <3>1. Cardinality(Positions(screen', m))
                = Cardinality(Positions(screen, m)) + (IF hand[only] = m THEN 1 ELSE 0)
        BY <1>2, <2>1, <2>4, PositionsAppend DEF Tasks
      <3> QED
        BY <2>3, <3>1
    <2>5. CASE hand[only] \notin Tasks
      BY <2>1, <2>3, <2>5, ShownFacts
    <2> QED
      BY <2>4, <2>5
  <1>5. CASE UNCHANGED <<received, stage, screen>> /\ (stage[only] = "run" => hand'[only] = hand[only])
    BY <1>1, <1>5 DEF ShownInv, Positions
  <1>6. CASE WorkerPop(only) /\ UNCHANGED consoleVars
    BY <1>5, <1>6 DEF WorkerPop, PopWait, PopLock, TakeFront, poolVars, consoleVars
  <1>7. CASE WokenForNothing(only) /\ UNCHANGED consoleVars
    BY <1>5, <1>7 DEF WokenForNothing, SpuriousWake, poolVars, consoleVars
  <1>8. CASE \E p \in Pushers : Say(p) \/ Pusher(p)
    <2>1. PICK p \in Pushers : Say(p) \/ Pusher(p)
      BY <1>8
    <2>2. p # only
      BY <1>1, ContentsFacts
    <2>3. UNCHANGED <<received, stage, screen>>
      BY <2>1 DEF Say, SayPlain, SayPrint, SayRoute, SayRest, Begin, QueueOut, Push, PushBack,
                  Guarded, Pusher, PusherStep, FinishPush, ConstructBack, AdvanceLast,
                  ConstructFront, RetreatFirst, NewFrontNode, FillFront, poolVars, consoleVars
    <2>4. hand'[only] = hand[only]
      BY <1>2, <2>1, <2>2 DEF Say, SayPlain, SayPrint, SayRoute, SayRest, Begin, QueueOut, Push,
                  PushBack, Guarded, Pusher, PusherStep, FinishPush, ConstructBack, AdvanceLast,
                  ConstructFront, RetreatFirst, NewFrontNode, FillFront
    <2> QED
      BY <1>5, <2>3, <2>4
  <1>9. CASE Exit \/ Destroy
    <2>1. UNCHANGED <<received, stage, screen>>
      BY <1>9 DEF Exit, ShutdownNow, BeginShutdown, Destroy, PushStop, JoinEach, PushBack,
                  PushFront, Guarded, consoleVars
    <2>2. hand'[only] = hand[only]
      BY <1>1, <1>2, <1>9, OwnerAssumption, ContentsFacts
         DEF Exit, ShutdownNow, BeginShutdown, Destroy, PushStop, JoinEach, PushBack, PushFront, Guarded
    <2> QED
      BY <1>5, <2>1, <2>2
  <1>10. CASE UNCHANGED allVars
    BY <1>5, <1>10 DEF allVars
  <1> QED
    BY <1>1, <1>3, <1>4, <1>6, <1>7, <1>8, <1>9, <1>10 DEF ConsoleNext, ConsoleThread

LEMMA ShownInit == ConsoleInit => ShownInv
  <1> SUFFICES ASSUME ConsoleInit PROVE ShownInv
    OBVIOUS
  <1>1. /\ Cardinality(Poppers) = 1 /\ screen = <<>> /\ received = <<>>
        /\ \A w \in Poppers : stage[w] = "pop"
    BY DEF ConsoleInit, PoolInit, QueueInit
  <1>2. \A m : Positions(screen, m) = {} /\ Positions(received, m) = {}
    BY <1>1 DEF Positions
  <1>3. \A m : Cardinality(Positions(screen, m)) = 0 /\ Cardinality(Positions(received, m)) = 0
    BY <1>2, FS_EmptySet
  <1>4. screen \in Seq(Messages)
    BY <1>1
  <1> QED
    BY <1>1, <1>3, <1>4 DEF ShownInv

(* Until the console is destroyed it writes no text more often than it was *)
(* queued, however many threads print at once: their pushes, which do not  *)
(* exclude each other, may lose a piece but never repeat one, although the *)
(* string captured by a task stays behind when the task is popped.         *)
THEOREM ShownOnce ==
  ConsoleSpec => [](phase = "open" =>
      \A m \in Messages :
          Cardinality(Positions(screen, m)) <= Cardinality(Positions(sent, m)))
  <1> DEFINE Once == phase = "open" =>
                        \A m \in Messages :
                            Cardinality(Positions(screen, m)) <= Cardinality(Positions(sent, m))
  <1>1. ConsoleInit => PoolInv /\ ShownInv /\ AheadInv
    BY PoolInitInv, ShownInit, AheadInit DEF ConsoleInit, PoolInit
  <1>2. PoolInv /\ ShownInv /\ (BackOnly => AheadInv) /\ [ConsoleNext]_allVars
            => PoolInv' /\ ShownInv' /\ (BackOnly => AheadInv)'
    BY ConsolePoolStep, PoolStepInv, BackOnlyStep, ShownStep
  <1>3. PoolInv /\ ShownInv /\ (BackOnly => AheadInv) => Once
    <2> SUFFICES ASSUME PoolInv, ShownInv, BackOnly => AheadInv, phase = "open",
                        NEW m \in Messages
                 PROVE  Cardinality(Positions(screen, m)) <= Cardinality(Positions(sent, m))
      OBVIOUS
    <2>1. Cardinality(Positions(received, m)) <= Cardinality(Positions(sent, m))
      BY AheadImplies DEF BackOnly, PoolInv, PoolTypeOK, OnceEach
    <2>2. Cardinality(Positions(screen, m)) <= Cardinality(Positions(received, m))
      <3>1. PICK w : w \in Poppers
        BY ThreadsAssumption
      <3>2. Cardinality(Positions(screen, m)) + (IF stage[w] = "run" /\ hand[w] = m THEN 1 ELSE 0)
              <= Cardinality(Positions(received, m))
        BY <3>1 DEF ShownInv
      <3> QED
        BY <3>2, ShownFacts
    <2>3. Cardinality(Positions(sent, m)) \in Nat
      <3>1. IsFiniteSet(DOMAIN cells)
        BY DEF BackOnly, AheadInv
      <3> QED
        BY <3>1, CopiesFinite DEF PoolInv, PoolTypeOK
    <2> QED
      BY <2>1, <2>2, <2>3, ShownFacts
  <1> QED
    BY <1>1, <1>2, <1>3, PTL DEF ConsoleSpec
=============================================================================
