-------------------------- MODULE TestRunnerProofs --------------------------
(***************************************************************************)
(* Proofs about TestRunner for any number of tests and any dependencies,   *)
(* loops included.  The tests on the stack are different, which bounds it, *)
(* have not run, which makes a test run once only, and each depends on the *)
(* next, so that a test met again closes a loop.  That a test was skipped  *)
(* for a failed one is carried from the frame that returns to its caller.  *)
(***************************************************************************)
EXTENDS TestRunner, SequenceTheorems, FiniteSetTheorems, TLAPS

-----------------------------------------------------------------------------
(* The three ways in which a step changes the stack. *)

Pushed(t) == Append(stack, [test |-> t, at |-> 1])

Advanced == [stack EXCEPT ![Len(stack)].at = @ + 1]

LEMMA PushedStack ==
    ASSUME stack \in Seq(Frames), NEW t \in Tests
    PROVE  /\ Pushed(t) \in Seq(Frames)
           /\ Len(Pushed(t)) = Len(stack) + 1
           /\ \A k \in 1 .. Len(stack) : Pushed(t)[k] = stack[k]
           /\ Pushed(t)[Len(stack) + 1] = [test |-> t, at |-> 1]
<1>1. [test |-> t, at |-> 1] \in Frames
  BY DEF Frames
<1>. QED BY <1>1, AppendProperties DEF Pushed

LEMMA PoppedStack ==
    ASSUME stack \in Seq(Frames), stack # <<>>
    PROVE  /\ Popped \in Seq(Frames)
           /\ Len(Popped) = Len(stack) - 1
           /\ \A k \in 1 .. Len(stack) - 1 : Popped[k] = stack[k]
           /\ Len(stack) \in Nat \ {0}
           /\ Top \in Frames
<1>1. Len(stack) \in Nat \ {0}
  BY EmptySeq
<1>2. Top \in Frames
  BY <1>1, ElementOfSeq DEF Top
<1>. DEFINE n == Len(stack) - 1
<1>3. n \in Nat /\ n <= Len(stack)
  BY <1>1
<1>4. /\ SubSeq(stack, 1, n) \in Seq(Frames)
      /\ Len(SubSeq(stack, 1, n)) = n
      /\ \A k \in 1 .. n : SubSeq(stack, 1, n)[k] = stack[k]
  <2>. HIDE DEF n
  <2>1. \A k \in 1 .. n : stack[k] \in Frames
    BY <1>1, <1>3, ElementOfSeq
  <2>. QED BY <1>1, <1>3, <2>1, SMT
<1>. QED BY <1>1, <1>2, <1>4 DEF Popped

LEMMA AdvancedStack ==
    ASSUME stack \in Seq(Frames), stack # <<>>
    PROVE  /\ Advanced \in Seq(Frames)
           /\ Len(Advanced) = Len(stack)
           /\ \A k \in 1 .. Len(stack) :
                 /\ Advanced[k].test = stack[k].test
                 /\ Advanced[k].at = IF k = Len(stack) THEN stack[k].at + 1
                                                       ELSE stack[k].at
<1>1. Len(stack) \in 1 .. Len(stack) /\ Top \in Frames
  BY PoppedStack
<1>. DEFINE frame == [test |-> Top.test, at |-> Top.at + 1]
<1>2. frame \in Frames
  BY <1>1 DEF Frames
<1>3. Advanced = [stack EXCEPT ![Len(stack)] = frame]
  <2>1. [Top EXCEPT !.at = @ + 1] = frame
    BY <1>1 DEF Frames
  <2>. QED BY <2>1 DEF Advanced, Top
<1>. HIDE DEF frame
<1>4. /\ Advanced \in Seq(Frames)
      /\ Len(Advanced) = Len(stack)
      /\ \A k \in 1 .. Len(stack) :
            Advanced[k] = IF k = Len(stack) THEN frame ELSE stack[k]
  BY <1>1, <1>2, <1>3, ExceptSeq
<1>. QED BY <1>1, <1>4 DEF Top, frame

-----------------------------------------------------------------------------
(* Types. *)

LEMMA DepType ==
    ASSUME TypeOK, NEW t \in Tests
    PROVE  /\ Len(deps[t]) \in Nat
           /\ \A i \in 1 .. Len(deps[t]) : deps[t][i] \in Tests \union {Unknown}
<1>1. deps[t] \in Seq(Tests \union {Unknown})
  BY TestsAssumption DEF TypeOK
<1>. QED BY <1>1, ElementOfSeq, LenProperties

LEMMA FrameType ==
    ASSUME TypeOK
    PROVE  /\ Len(stack) \in Nat
           /\ stack # <<>> => Len(stack) >= 1
           /\ stack = <<>> => Len(stack) = 0
           /\ \A k \in 1 .. Len(stack) :
                 stack[k].test \in Tests /\ stack[k].at \in Nat \ {0}
<1>1. stack \in Seq(Frames)
  BY DEF TypeOK
<1>2. \A k \in 1 .. Len(stack) : stack[k] \in Frames
  BY <1>1, ElementOfSeq
<1>. QED BY <1>1, <1>2, EmptySeq, LenProperties DEF Frames

\* The test of the topmost frame and its list.
LEMMA TopType ==
    ASSUME TypeOK, stack # <<>>
    PROVE  /\ Top.test \in Tests
           /\ Top.at \in Nat \ {0}
           /\ Top.at <= Len(deps[Top.test]) + 1
           /\ Top = stack[Len(stack)]
           /\ Len(stack) \in 1 .. Len(stack)
BY FrameType DEF TypeOK, Top

\* Frame k is at its dependency t.
Awaits(k, t) ==
    /\ stack[k].at <= Len(deps[stack[k].test])
    /\ deps[stack[k].test][stack[k].at] = t

\* Each frame on the stack was entered for the dependency its caller is at,
\* the first for the test run_tests is at; so was the test that has returned.
Linked ==
    /\ stack # <<>> => next <= TestsLen /\ stack[1].test = next
    /\ \A k \in 1 .. Len(stack) - 1 : Awaits(k, stack[k + 1].test)
    /\ returned # 0 => IF stack = <<>>
                       THEN next <= TestsLen /\ returned = next
                       ELSE Awaits(Len(stack), returned)

LEMMA TypeInit == Init => TypeOK /\ Linked
<1>. SUFFICES ASSUME Init PROVE TypeOK /\ Linked
  OBVIOUS
<1>1. stack = <<>> /\ stack \in Seq(Frames) /\ Len(stack) = 0
  BY EmptySeq DEF Init
<1>2. next \in 1 .. TestsLen + 1
  BY TestsAssumption DEF Init
<1>3. \A n : n \notin 1 .. 0
  OBVIOUS
<1>4. TypeOK
  BY <1>1, <1>2, <1>3 DEF Init, TypeOK, Outcomes
<1>5. Linked
  BY <1>1 DEF Init, Linked
<1>. QED BY <1>4, <1>5

LEMMA EnterType ==
    ASSUME TypeOK, NEW t \in Tests, Enter(t)
    PROVE  /\ stack' \in Seq(Frames)
           /\ \A k \in 1 .. Len(stack') :
                 stack'[k].at <= Len(deps[stack'[k].test]) + 1
           /\ returned' \in Tests \union {0}
           /\ outcome' \in Outcomes
<1>1. CASE UNCHANGED stack
  BY <1>1 DEF Enter, TypeOK, Stop, Outcomes
<1>2. CASE stack' = Pushed(t) /\ UNCHANGED <<returned, outcome>>
  <2>1. stack \in Seq(Frames)
    BY DEF TypeOK
  <2>2. Len(stack) \in Nat /\ Len(deps[t]) \in Nat
    BY FrameType, DepType
  <2>3. stack' \in Seq(Frames) /\ Len(stack') = Len(stack) + 1
    BY <1>2, <2>1, PushedStack
  <2>4. ASSUME NEW k \in 1 .. Len(stack')
        PROVE  stack'[k].at <= Len(deps[stack'[k].test]) + 1
    <3>1. CASE k = Len(stack) + 1
      <4>1. stack'[k] = [test |-> t, at |-> 1]
        BY <1>2, <2>1, <3>1, PushedStack
      <4>. QED BY <2>2, <4>1
    <3>2. CASE k \in 1 .. Len(stack)
      <4>1. stack'[k] = stack[k]
        BY <1>2, <2>1, <3>2, PushedStack
      <4>. QED BY <3>2, <4>1 DEF TypeOK
    <3>. QED BY <2>2, <2>3, <3>1, <3>2
  <2>. QED BY <1>2, <2>3, <2>4 DEF TypeOK
<1>. QED BY <1>1, <1>2 DEF Enter, Pushed, Stop

LEMMA AdvanceStep ==
    ASSUME TypeOK, stack # <<>>, stack' = Advanced
    PROVE  /\ stack' \in Seq(Frames)
           /\ Len(stack') = Len(stack)
           /\ Len(stack) \in Nat \ {0}
           /\ \A k \in 1 .. Len(stack) :
                 /\ stack'[k].test = stack[k].test
                 /\ stack'[k].at = IF k = Len(stack) THEN Top.at + 1
                                                     ELSE stack[k].at
<1>1. stack \in Seq(Frames)
  BY DEF TypeOK
<1>. QED BY <1>1, AdvancedStack, PoppedStack DEF Top

LEMMA PopStep ==
    ASSUME TypeOK, stack # <<>>, stack' = Popped
    PROVE  /\ stack' \in Seq(Frames)
           /\ Len(stack) \in Nat \ {0}
           /\ Len(stack') = Len(stack) - 1
           /\ \A k \in 1 .. Len(stack') :
                 k \in 1 .. Len(stack) /\ stack'[k] = stack[k]
<1>1. stack \in Seq(Frames)
  BY DEF TypeOK
<1>2. /\ Popped \in Seq(Frames)
      /\ Len(Popped) = Len(stack) - 1
      /\ \A k \in 1 .. Len(stack) - 1 : Popped[k] = stack[k]
      /\ Len(stack) \in Nat \ {0}
  BY <1>1, PoppedStack
<1>. QED BY <1>2

LEMMA TypeStep == TypeOK /\ Linked /\ [Next]_vars => TypeOK'
<1>. SUFFICES ASSUME TypeOK, Linked, [Next]_vars PROVE TypeOK'
  OBVIOUS
<1>. USE TestsAssumption
<1>1. CASE RunTest
  <2>1. next \in Tests
    BY <1>1 DEF RunTest, TypeOK, Tests
  <2>. QED BY <1>1, <2>1, EnterType DEF RunTest, TypeOK
<1>2. CASE TestDone
  <2>1. next <= TestsLen
    BY <1>2 DEF TestDone, Linked
  <2>. QED BY <1>2, <2>1 DEF TestDone, TypeOK
<1>3. CASE RunDep
  <2>. DEFINE dep == deps[Top.test][Top.at]
  <2>1. dep \in Tests \union {Unknown}
    BY <1>3, TopType, DepType DEF RunDep
  <2>2. CASE dep # Unknown /\ Enter(dep)
    <3>1. dep \in Tests
      BY <2>1, <2>2
    <3>. HIDE DEF dep
    <3>2. UNCHANGED <<deps, ran, passed, test_failure, next, calls, broken>>
          /\ stack # <<>>
      BY <1>3 DEF RunDep
    <3>. QED BY <2>2, <3>1, <3>2, EnterType DEF TypeOK
  <2>. QED BY <1>3, <2>2 DEF RunDep, Stop, TypeOK, Outcomes
<1>4. CASE DepPassed
  <2>1. stack # <<>> /\ stack \in Seq(Frames) /\ stack' = Advanced
    BY <1>4 DEF DepPassed, TypeOK, Advanced
  <2>2. Top.at <= Len(deps[Top.test])
    BY <1>4, <2>1 DEF DepPassed, Linked, Awaits, Top
  <2>3. ASSUME NEW k \in 1 .. Len(stack')
        PROVE  stack'[k].at <= Len(deps[stack'[k].test]) + 1
    <3>1. k \in 1 .. Len(stack) /\ stack'[k].test = stack[k].test
          /\ stack'[k].at = IF k = Len(stack) THEN Top.at + 1 ELSE stack[k].at
      BY <2>1, AdvanceStep
    <3>2. CASE k = Len(stack)
      <4>1. Len(deps[Top.test]) \in Nat /\ Top.at \in Nat
        BY <2>1, TopType, DepType
      <4>. QED BY <2>2, <3>1, <3>2, <4>1 DEF Top
    <3>. QED BY <3>1, <3>2 DEF TypeOK
  <2>4. stack' \in Seq(Frames)
    BY <2>1, AdvanceStep
  <2>. QED BY <1>4, <2>3, <2>4 DEF DepPassed, TypeOK
<1>5. CASE DepFailed
  <2>1. stack # <<>> /\ stack' = Popped /\ Top.test \in Tests
    BY <1>5, TopType DEF DepFailed
  <2>2. stack' \in Seq(Frames)
        /\ \A k \in 1 .. Len(stack') :
              stack'[k].at <= Len(deps[stack'[k].test]) + 1
    BY <2>1, PopStep DEF TypeOK
  <2>. QED BY <1>5, <2>1, <2>2 DEF DepFailed, TypeOK
<1>6. CASE CallTest
  <2>1. stack # <<>> /\ stack \in Seq(Frames) /\ Top.test \in Tests
    BY <1>6, TopType DEF CallTest, TypeOK
  <2>. DEFINE t == Top.test
  <2>2. calls' = [calls EXCEPT ![t] = calls[t] + 1]
        /\ (broken' = broken \/ broken' = broken \union {t})
        /\ UNCHANGED <<deps, test_failure, next>>
    BY <1>6 DEF CallTest
  <2>3. calls' \in [Tests -> Nat] /\ broken' \subseteq Tests
    <3>. HIDE DEF t
    <3>1. t \in Tests
      BY <2>1 DEF t
    <3>. QED BY <2>2, <3>1 DEF TypeOK
  <2>4. CASE outcome' = "assertion" /\ UNCHANGED <<stack, returned, ran, passed>>
    BY <2>2, <2>3, <2>4 DEF TypeOK, Outcomes
  <2>5. CASE /\ UNCHANGED outcome
             /\ stack' = Popped /\ returned' = t
             /\ ran' = [ran EXCEPT ![t] = TRUE]
             /\ \E p \in BOOLEAN : passed' = [passed EXCEPT ![t] = p]
    <3>1. ran' \in [Tests -> BOOLEAN] /\ passed' \in [Tests -> BOOLEAN]
      BY <2>1, <2>5 DEF TypeOK
    <3>2. stack' \in Seq(Frames)
          /\ \A k \in 1 .. Len(stack') :
                stack'[k].at <= Len(deps[stack'[k].test]) + 1
      BY <2>1, <2>5, PopStep DEF TypeOK
    <3>. QED BY <2>1, <2>2, <2>3, <2>5, <3>1, <3>2 DEF TypeOK
  <2>. QED
    <3>1. PICK result \in Results :
             IF result = "assertion"
             THEN Stop("assertion") /\ UNCHANGED <<ran, passed>>
             ELSE /\ stack' = Popped
                  /\ returned' = t
                  /\ ran' = [ran EXCEPT ![t] = TRUE]
                  /\ passed' = [passed EXCEPT ![t] = result # "message"]
                  /\ UNCHANGED outcome
      BY <1>6 DEF CallTest
    <3>. QED BY <2>4, <2>5, <3>1 DEF Stop
<1>7. CASE EndTests
  BY <1>7 DEF EndTests, TypeOK, Outcomes
<1>8. CASE UNCHANGED vars
  BY <1>8 DEF vars, TypeOK
<1>. QED BY <1>1, <1>2, <1>3, <1>4, <1>5, <1>6, <1>7, <1>8 DEF Next

-----------------------------------------------------------------------------
(* The invariant. *)

\* The tests on the stack differ and none has run.
StackDiffers ==
    /\ \A j, k \in 1 .. Len(stack) : stack[j].test = stack[k].test => j = k
    /\ \A k \in 1 .. Len(stack) : ~ran[stack[k].test]

DepsPassed(t) == \A d \in DepsOf(t) : d # Unknown /\ passed[d]

\* Tests that ran, and the dependencies behind each frame.
Ordered ==
    /\ \A t \in Tests : passed[t] => ran[t]
    /\ \A t \in Tests : ran[t] => DepsPassed(t)
    /\ \A k \in 1 .. Len(stack) : \A i \in 1 .. stack[k].at - 1 :
          /\ deps[stack[k].test][i] # Unknown
          /\ passed[deps[stack[k].test][i]]
    /\ Running => \A t \in Tests : calls[t] = IF ran[t] THEN 1 ELSE 0
    /\ OnceInOrder

\* The dependencies of t, direct and indirect, include a failed test.
Caused(t) ==
    \A closed \in SUBSET Tests :
        /\ t \in closed
        /\ \A u \in closed : DepsOf(u) \intersect Tests \subseteq closed
        => \E u \in closed : ran[u] /\ ~passed[u]

Accounted ==
    /\ \A t \in 1 .. next - 1 : ran[t] \/ Caused(t)
    /\ returned # 0 => ran[returned] \/ Caused(returned)
    /\ Ended => next > TestsLen

IInv == TypeOK /\ Linked /\ StackDiffers /\ Ordered /\ LoopIsReal /\ Accounted

USE DEF Running

LEMMA PushStep ==
    ASSUME TypeOK, NEW t \in Tests, stack' = Pushed(t)
    PROVE  /\ Len(stack) \in Nat
           /\ Len(stack') = Len(stack) + 1
           /\ stack' # <<>>
           /\ \A k \in 1 .. Len(stack) : stack'[k] = stack[k]
           /\ stack'[Len(stack) + 1].test = t
           /\ stack'[Len(stack) + 1].at = 1
<1>1. stack \in Seq(Frames)
  BY DEF TypeOK
<1>2. /\ Pushed(t) \in Seq(Frames)
      /\ Len(Pushed(t)) = Len(stack) + 1
      /\ \A k \in 1 .. Len(stack) : Pushed(t)[k] = stack[k]
      /\ Pushed(t)[Len(stack) + 1] = [test |-> t, at |-> 1]
  BY <1>1, PushedStack
<1>3. Len(stack) \in Nat
  BY FrameType
<1>4. stack' # <<>>
  BY <1>2, <1>3, EmptySeq
<1>. QED BY <1>2, <1>3, <1>4

\* run() has been called for t, by the topmost frame or by run_tests.
Awaited(t) ==
    IF stack = <<>> THEN next <= TestsLen /\ t = next ELSE Awaits(Len(stack), t)

\* What calling run() does, in the words of the invariant.
Entered(t) ==
    /\ t \in Tests
    /\ returned = 0
    /\ Awaited(t)
    /\ Enter(t)
    /\ UNCHANGED <<deps, ran, passed, test_failure, next, calls, broken>>

LEMMA RunsEnter ==
    ASSUME TypeOK, RunTest \/ RunDep
    PROVE  (\E t \in Tests : Entered(t)) \/ (RunDep /\ outcome' = "unknown")
<1>1. CASE RunTest
  <2>1. next \in Tests
    BY <1>1 DEF RunTest, TypeOK, Tests
  <2>2. Entered(next)
    BY <1>1, <2>1 DEF RunTest, Entered, Awaited, Tests
  <2>. QED BY <2>1, <2>2
<1>2. CASE RunDep
  <2>. DEFINE dep == deps[Top.test][Top.at]
  <2>1. CASE dep # Unknown /\ Enter(dep)
    <3>1. dep \in Tests
      BY <1>2, <2>1, TopType, DepType DEF RunDep
    <3>2. Awaited(dep)
      BY <1>2 DEF RunDep, Awaited, Awaits, Top
    <3>3. Entered(dep)
      BY <1>2, <2>1, <3>1, <3>2 DEF RunDep, Entered
    <3>. QED BY <3>1, <3>3
  <2>. QED BY <1>2, <2>1 DEF RunDep, Stop
<1>. QED BY <1>1, <1>2

LEMMA EnterLinks ==
    ASSUME TypeOK, Linked, NEW t \in Tests, Entered(t)
    PROVE  Linked'
<1>. USE DEF Entered
<1>1. CASE returned' = t /\ UNCHANGED stack
  BY <1>1 DEF Linked, Awaited, Awaits
<1>2. CASE UNCHANGED <<stack, returned>>
  BY <1>2 DEF Linked, Awaits
<1>3. CASE stack' = Pushed(t) /\ UNCHANGED returned
  <2>1. stack' # <<>> => next' <= TestsLen /\ stack'[1].test = next'
    <3>1. CASE stack = <<>>
      BY <1>3, <3>1, PushStep, FrameType DEF Awaited
    <3>2. CASE stack # <<>>
      <4>1. 1 \in 1 .. Len(stack)
        BY <3>2, FrameType
      <4>. QED BY <1>3, <3>2, <4>1, PushStep DEF Linked
    <3>. QED BY <3>1, <3>2
  <2>2. ASSUME NEW k \in 1 .. Len(stack') - 1
        PROVE  Awaits(k, stack[k + 1].test)'
    <3>1. Len(stack) \in Nat /\ k \in 1 .. Len(stack) /\ stack'[k] = stack[k]
      BY <1>3, PushStep
    <3>2. CASE k = Len(stack)
      <4>1. stack'[k + 1].test = t
        BY <1>3, <3>2, PushStep
      <4>2. Awaits(k, t)
        BY <3>1, <3>2, FrameType DEF Awaited
      <4>. QED BY <3>1, <4>1, <4>2 DEF Awaits
    <3>3. CASE k # Len(stack)
      <4>1. k + 1 \in 1 .. Len(stack) /\ k \in 1 .. Len(stack) - 1
        BY <3>1, <3>3
      <4>2. stack'[k + 1] = stack[k + 1]
        BY <1>3, <4>1, PushStep
      <4>3. Awaits(k, stack[k + 1].test)
        BY <4>1 DEF Linked
      <4>. QED BY <3>1, <4>2, <4>3 DEF Awaits
    <3>. QED BY <3>2, <3>3
  <2>. QED BY <1>3, <2>1, <2>2 DEF Linked
<1>. QED BY <1>1, <1>2, <1>3 DEF Enter, Stop, Pushed

\* The frame that returns was entered for what its caller awaits.
LEMMA PopLinks ==
    ASSUME TypeOK, Linked, stack # <<>>, stack' = Popped,
           returned' = Top.test, UNCHANGED <<deps, next>>
    PROVE  Linked'
<1>. DEFINE n == Len(stack)
<1>1. /\ n \in Nat \ {0}
      /\ Len(stack') = n - 1
      /\ \A k \in 1 .. n - 1 : stack'[k] = stack[k]
      /\ stack' \in Seq(Frames)
  BY PopStep
<1>2. next <= TestsLen /\ stack[1].test = next
  BY DEF Linked
<1>3. stack' # <<>> => 1 \in 1 .. n - 1
  BY <1>1, EmptySeq
<1>4. \A k \in 1 .. n - 1 : Awaits(k, stack[k + 1].test)
  BY DEF Linked
<1>5. \A k \in 1 .. Len(stack') - 1 : Awaits(k, stack[k + 1].test)'
  <2>. SUFFICES ASSUME NEW k \in 1 .. Len(stack') - 1
                PROVE  Awaits(k, stack[k + 1].test)'
    OBVIOUS
  <2>1. k \in 1 .. n - 1 /\ k + 1 \in 1 .. n - 1
    BY <1>1
  <2>. QED BY <1>1, <1>4, <2>1 DEF Awaits
<1>6. CASE stack' = <<>>
  <2>1. n = 1
    BY <1>1, <1>6, EmptySeq
  <2>. QED BY <1>2, <1>6, <2>1, <1>5 DEF Linked, Top
<1>7. CASE stack' # <<>>
  <2>1. n - 1 \in 1 .. n - 1
    BY <1>1, <1>3, <1>7
  <2>2. Awaits(n - 1, stack[n].test)
    BY <1>1, <1>4, <2>1
  <2>3. Awaits(Len(stack), returned)'
    BY <1>1, <2>1, <2>2 DEF Awaits, Top
  <2>. QED BY <1>1, <1>2, <1>3, <1>5, <1>7, <2>3 DEF Linked
<1>. QED BY <1>6, <1>7

\* What calling the function of a test does: the program ends, or the test
\* has run and its frame is popped.
LEMMA CallsTest ==
    ASSUME TypeOK, CallTest
    PROVE  /\ stack # <<>> /\ returned = 0 /\ Running
           /\ Top.at > Len(deps[Top.test])
           /\ UNCHANGED <<deps, test_failure, next>>
           /\ calls' = [calls EXCEPT ![Top.test] = @ + 1]
           /\ \/ outcome' = "assertion" /\ UNCHANGED <<stack, returned, ran, passed>>
              \/ /\ outcome' = outcome
                 /\ stack' = Popped
                 /\ returned' = Top.test
                 /\ ran' = [ran EXCEPT ![Top.test] = TRUE]
                 /\ \E p \in BOOLEAN : passed' = [passed EXCEPT ![Top.test] = p]
<1>1. PICK result \in Results :
         IF result = "assertion"
         THEN Stop("assertion") /\ UNCHANGED <<ran, passed>>
         ELSE /\ stack' = Popped
              /\ returned' = Top.test
              /\ ran' = [ran EXCEPT ![Top.test] = TRUE]
              /\ passed' = [passed EXCEPT ![Top.test] = result # "message"]
              /\ UNCHANGED outcome
  BY DEF CallTest
<1>2. (result # "message") \in BOOLEAN
  OBVIOUS
<1>. QED BY <1>1, <1>2 DEF CallTest, Stop

LEMMA LinkStep == TypeOK /\ Linked /\ [Next]_vars => Linked'
<1>. SUFFICES ASSUME TypeOK, Linked, [Next]_vars PROVE Linked'
  OBVIOUS
<1>1. CASE RunTest \/ RunDep
  <2>1. CASE \E t \in Tests : Entered(t)
    BY <2>1, EnterLinks
  <2>2. CASE RunDep /\ outcome' = "unknown"
    <3>1. UNCHANGED <<deps, next, stack, returned>>
      BY <2>2 DEF RunDep, Stop, Enter
    <3>. QED BY <3>1 DEF Linked, Awaits
  <2>. QED BY <1>1, <2>1, <2>2, RunsEnter
<1>2. CASE TestDone
  BY <1>2, FrameType DEF TestDone, Linked
<1>3. CASE DepPassed
  <2>1. stack # <<>> /\ returned' = 0 /\ stack' = Advanced
        /\ UNCHANGED <<deps, next>>
    BY <1>3 DEF DepPassed, Advanced
  <2>2. /\ Len(stack') = Len(stack)
        /\ Len(stack) \in Nat \ {0}
        /\ \A k \in 1 .. Len(stack) : stack'[k].test = stack[k].test
        /\ \A k \in 1 .. Len(stack) - 1 : stack'[k].at = stack[k].at
    BY <2>1, AdvanceStep
  <2>3. stack'[1].test = next
    BY <2>1, <2>2 DEF Linked
  <2>4. \A k \in 1 .. Len(stack') - 1 : Awaits(k, stack[k + 1].test)'
    BY <2>1, <2>2 DEF Linked, Awaits
  <2>. QED BY <2>1, <2>3, <2>4 DEF Linked
<1>4. CASE DepFailed
  BY <1>4, PopLinks DEF DepFailed
<1>5. CASE CallTest
  <2>1. CASE UNCHANGED <<stack, returned>>
    BY <1>5, <2>1, CallsTest DEF Linked, Awaits
  <2>. QED BY <1>5, <2>1, CallsTest, PopLinks
<1>6. CASE EndTests \/ UNCHANGED vars
  BY <1>6 DEF EndTests, vars, Linked, Awaits
<1>. QED BY <1>1, <1>2, <1>3, <1>4, <1>5, <1>6 DEF Next

-----------------------------------------------------------------------------
(* The tests on the stack. *)

LEMMA StackStep ==
    TypeOK /\ StackDiffers /\ [Next]_vars => StackDiffers'
<1>. SUFFICES ASSUME TypeOK, StackDiffers, [Next]_vars PROVE StackDiffers'
  OBVIOUS
<1>1. CASE RunTest \/ RunDep
  <2>1. ASSUME NEW t \in Tests, Entered(t) PROVE StackDiffers'
    <3>1. CASE UNCHANGED stack
      BY <2>1, <3>1 DEF Entered, StackDiffers
    <3>2. CASE stack' = Pushed(t) /\ ~ran[t] /\ ~OnStack(t)
      <4>1. /\ Len(stack) \in Nat
            /\ Len(stack') = Len(stack) + 1
            /\ \A k \in 1 .. Len(stack) : stack'[k].test = stack[k].test
            /\ stack'[Len(stack) + 1].test = t
        BY <3>2, PushStep
      <4>2. \A k \in 1 .. Len(stack) : stack[k].test # t
        BY <3>2 DEF OnStack
      <4>3. \A k \in 1 .. Len(stack') :
               k \in 1 .. Len(stack) \/ k = Len(stack) + 1
        BY <4>1
      <4>. QED BY <2>1, <3>2, <4>1, <4>2, <4>3 DEF Entered, StackDiffers
    <3>. QED BY <2>1, <3>1, <3>2 DEF Entered, Enter, Stop, Pushed
  <2>2. CASE RunDep /\ outcome' = "unknown"
    BY <2>2 DEF RunDep, Stop, Enter, StackDiffers
  <2>. QED BY <1>1, <2>1, <2>2, RunsEnter
<1>2. CASE DepPassed
  <2>1. stack # <<>> /\ stack' = Advanced /\ UNCHANGED ran
    BY <1>2 DEF DepPassed, Advanced
  <2>. QED BY <2>1, AdvanceStep DEF StackDiffers
<1>3. CASE DepFailed
  BY <1>3, PopStep DEF DepFailed, StackDiffers
<1>4. CASE CallTest
  <2>1. CASE UNCHANGED <<stack, ran>>
    BY <2>1 DEF StackDiffers
  <2>2. CASE stack' = Popped /\ ran' = [ran EXCEPT ![Top.test] = TRUE]
    <3>1. stack # <<>>
      BY <1>4, CallsTest
    <3>2. /\ Len(stack) \in Nat \ {0}
          /\ Len(stack') = Len(stack) - 1
          /\ \A k \in 1 .. Len(stack') :
                k \in 1 .. Len(stack) /\ stack'[k] = stack[k]
      BY <2>2, <3>1, PopStep
    <3>3. \A k \in 1 .. Len(stack') : stack[k].test # Top.test
      BY <3>2 DEF StackDiffers, Top
    <3>4. \A k \in 1 .. Len(stack') : ran'[stack[k].test] = ran[stack[k].test]
      BY <2>2, <3>2, <3>3, FrameType DEF TypeOK
    <3>. QED BY <3>2, <3>4 DEF StackDiffers
  <2>. QED BY <1>4, <2>1, <2>2, CallsTest
<1>5. CASE TestDone \/ EndTests \/ UNCHANGED vars
  BY <1>5 DEF TestDone, EndTests, vars, StackDiffers
<1>. QED BY <1>1, <1>2, <1>3, <1>4, <1>5 DEF Next

\* Different tests, and only TestsLen of them.
LEMMA StackBound == TypeOK /\ StackDiffers => BufferFits
<1>. SUFFICES ASSUME TypeOK, StackDiffers PROVE Len(stack) <= TestsLen
  BY DEF BufferFits
<1>. DEFINE n == Len(stack)
            f == [k \in 1 .. n |-> stack[k].test]
<1>1. n \in Nat /\ TestsLen \in Nat
  BY FrameType, TestsAssumption
<1>2. f \in Injection(1 .. n, Tests)
  BY FrameType DEF StackDiffers, Injection, IsInjective
<1>. HIDE DEF n, f
<1>3. \A m \in Nat : IsFiniteSet(1 .. m) /\ Cardinality(1 .. m) = m
  <2>. SUFFICES ASSUME NEW m \in Nat
                PROVE  IsFiniteSet(1 .. m) /\ Cardinality(1 .. m) = m
    OBVIOUS
  <2>1. /\ IsFiniteSet(1 .. m)
        /\ Cardinality(1 .. m) = IF 1 > m THEN 0 ELSE m - 1 + 1
    BY FS_Interval
  <2>. QED BY <2>1
<1>4. Cardinality(1 .. n) <= Cardinality(1 .. TestsLen)
  BY <1>1, <1>2, <1>3, FS_Injection DEF Tests
<1>. QED BY <1>1, <1>3, <1>4 DEF n

-----------------------------------------------------------------------------
(* The order of the tests. *)

\* A frame that is past its last dependency has only passed ones.
LEMMA AllPassed ==
    ASSUME TypeOK, Ordered, stack # <<>>, Top.at > Len(deps[Top.test])
    PROVE  DepsPassed(Top.test)
<1>1. /\ Top.test \in Tests /\ Top.at \in Nat
      /\ Top = stack[Len(stack)] /\ Len(stack) \in 1 .. Len(stack)
  BY TopType
<1>2. Len(deps[Top.test]) \in Nat
  BY <1>1, DepType
<1>3. \A i \in 1 .. Len(deps[Top.test]) : i \in 1 .. Top.at - 1
  BY <1>1, <1>2
<1>. QED BY <1>1, <1>3 DEF Ordered, DepsPassed, DepsOf

LEMMA OrderStep ==
    TypeOK /\ Linked /\ StackDiffers /\ Ordered /\ [Next]_vars => Ordered'
<1>. SUFFICES ASSUME TypeOK, Linked, StackDiffers, Ordered, [Next]_vars
              PROVE  Ordered'
  OBVIOUS
<1>1. CASE RunTest \/ RunDep
  <2>1. ASSUME NEW t \in Tests, Entered(t) PROVE Ordered'
    <3>1. CASE UNCHANGED stack
      BY <2>1, <3>1
         DEF Entered, Enter, Stop, Ordered, OnceInOrder, DepsPassed, DepsOf
    <3>2. CASE stack' = Pushed(t) /\ UNCHANGED outcome
      <4>1. \A k \in 1 .. Len(stack') : \A i \in 1 .. stack'[k].at - 1 :
               deps[stack'[k].test][i] # Unknown /\ passed[deps[stack'[k].test][i]]
        <5>1. \A k \in 1 .. Len(stack') :
                 \/ k \in 1 .. Len(stack) /\ stack'[k] = stack[k]
                 \/ stack'[k].at = 1
          BY <3>2, PushStep
        <5>. QED BY <5>1 DEF Ordered
      <4>. QED BY <2>1, <3>2, <4>1
               DEF Entered, Ordered, OnceInOrder, DepsPassed, DepsOf
    <3>. QED BY <2>1, <3>1, <3>2 DEF Entered, Enter, Stop, Pushed
  <2>2. CASE RunDep /\ outcome' = "unknown"
    BY <2>2 DEF RunDep, Stop, Enter, Ordered, OnceInOrder, DepsPassed, DepsOf
  <2>. QED BY <1>1, <2>1, <2>2, RunsEnter
<1>2. CASE DepPassed
  <2>1. /\ stack # <<>> /\ stack' = Advanced /\ passed[returned] /\ returned # 0
        /\ UNCHANGED <<deps, ran, passed, calls, outcome>>
    BY <1>2 DEF DepPassed, Advanced
  <2>2. /\ deps[Top.test][Top.at] = returned
        /\ returned # Unknown
    BY <2>1, TestsAssumption DEF Linked, Awaits, Top, TypeOK
  <2>3. ASSUME NEW k \in 1 .. Len(stack'), NEW i \in 1 .. stack'[k].at - 1
        PROVE  deps[stack'[k].test][i] # Unknown /\ passed[deps[stack'[k].test][i]]
    <3>1. /\ k \in 1 .. Len(stack) /\ stack'[k].test = stack[k].test
          /\ stack'[k].at = IF k = Len(stack) THEN Top.at + 1 ELSE stack[k].at
      BY <2>1, AdvanceStep
    <3>2. CASE i \in 1 .. stack[k].at - 1
      BY <3>1, <3>2 DEF Ordered
    <3>3. CASE k = Len(stack) /\ i = Top.at
      BY <2>1, <2>2, <3>1, <3>3 DEF Top
    <3>4. i \in 1 .. stack[k].at - 1 \/ (k = Len(stack) /\ i = Top.at)
      BY <2>1, <3>1, TopType
    <3>. QED BY <3>2, <3>3, <3>4
  <2>. QED BY <2>1, <2>3 DEF Ordered, OnceInOrder, DepsPassed, DepsOf
<1>3. CASE DepFailed
  <2>1. \A k \in 1 .. Len(stack') : k \in 1 .. Len(stack) /\ stack'[k] = stack[k]
    BY <1>3, PopStep DEF DepFailed
  <2>. QED BY <1>3, <2>1 DEF DepFailed, Ordered, OnceInOrder, DepsPassed, DepsOf
<1>4. CASE CallTest
  <2>. DEFINE t == Top.test
  <2>1. /\ stack # <<>> /\ t \in Tests /\ Running
        /\ UNCHANGED deps
        /\ calls' = [calls EXCEPT ![t] = @ + 1]
    BY <1>4, CallsTest, TopType
  <2>2. ~ran[t] /\ ~passed[t] /\ calls[t] = 0
    BY <2>1, TopType DEF StackDiffers, Ordered, TypeOK
  <2>3. DepsPassed(t)
    BY <1>4, CallsTest, AllPassed
  <2>4. calls' = [calls EXCEPT ![t] = 1]
    BY <2>1, <2>2
  <2>5. CASE outcome' = "assertion" /\ UNCHANGED <<stack, ran, passed>>
    <3>. HIDE DEF t
    <3>1. OnceInOrder'
      BY <2>1, <2>3, <2>4, <2>5
         DEF OnceInOrder, DepsPassed, DepsOf, TypeOK, Ordered
    <3>. QED BY <2>1, <2>5, <3>1 DEF Ordered, DepsPassed, DepsOf
  <2>6. CASE /\ stack' = Popped /\ ran' = [ran EXCEPT ![t] = TRUE]
             /\ \E p \in BOOLEAN : passed' = [passed EXCEPT ![t] = p]
             /\ outcome' = outcome
    <3>1. \A k \in 1 .. Len(stack') :
             k \in 1 .. Len(stack) /\ stack'[k] = stack[k]
      BY <2>1, <2>6, PopStep
    <3>. HIDE DEF t
    <3>2. PICK p \in BOOLEAN : passed' = [passed EXCEPT ![t] = p]
      BY <2>6
    <3>3. \A d : passed[d] /\ d \in Tests => passed'[d]
      BY <2>2, <3>2 DEF TypeOK
    <3>4. \A u \in Tests : \A d \in DepsOf(u) : d \in Tests \union {Unknown}
      BY DepType DEF DepsOf
    <3>5. \A u \in Tests : DepsPassed(u) => DepsPassed(u)'
      BY <2>1, <3>3, <3>4 DEF DepsPassed, DepsOf
    <3>6. \A u \in Tests : passed'[u] => ran'[u]
      BY <2>6, <3>2 DEF Ordered, TypeOK
    <3>7. \A u \in Tests : ran'[u] => DepsPassed(u)'
      BY <2>3, <2>6, <3>5 DEF Ordered, TypeOK
    <3>8. \A k \in 1 .. Len(stack') : \A i \in 1 .. stack'[k].at - 1 :
             /\ deps'[stack'[k].test][i] # Unknown
             /\ passed'[deps'[stack'[k].test][i]]
      <4>1. \A k \in 1 .. Len(stack) : \A i \in 1 .. stack[k].at - 1 :
               deps[stack[k].test][i] \in Tests \union {Unknown}
        BY FrameType, DepType, SMTT(30) DEF TypeOK
      <4>. QED BY <2>1, <3>1, <3>3, <4>1 DEF Ordered
    <3>9. \A u \in Tests : calls'[u] = IF ran'[u] THEN 1 ELSE 0
      BY <2>1, <2>4, <2>6 DEF Ordered, TypeOK
    <3>10. OnceInOrder'
      BY <3>7, <3>9 DEF OnceInOrder, DepsPassed
    <3>. QED BY <3>6, <3>7, <3>8, <3>9, <3>10 DEF Ordered
  <2>. QED BY <1>4, <2>5, <2>6, CallsTest
<1>5. CASE UNCHANGED <<deps, ran, passed, stack, calls>> /\ (Running' => Running)
  BY <1>5 DEF Ordered, OnceInOrder, DepsPassed, DepsOf
<1>. QED
  BY <1>1, <1>2, <1>3, <1>4, <1>5 DEF Next, TestDone, EndTests, vars

-----------------------------------------------------------------------------
(* Loops, and tests that were skipped. *)

LEMMA LoopStep ==
    TypeOK /\ Linked /\ LoopIsReal /\ [Next]_vars => LoopIsReal'
<1>. SUFFICES ASSUME TypeOK, Linked, LoopIsReal, [Next]_vars,
                     outcome' = "loop"
              PROVE  \E loop \in (SUBSET Tests) \ {{}} :
                        \A t \in loop : DepsOf(t)' \intersect loop # {}
  BY DEF LoopIsReal
<1>1. UNCHANGED deps
  BY DEF Next, RunTest, TestDone, RunDep, DepPassed, DepFailed, CallTest,
         EndTests, vars
<1>2. CASE outcome = "loop"
  <2>1. \A t : DepsOf(t)' = DepsOf(t)
    BY <1>1 DEF DepsOf
  <2>. QED BY <1>2, <2>1 DEF LoopIsReal
<1>3. CASE outcome # "loop"
  <2>1. PICK t \in Tests : Entered(t) /\ OnStack(t)
    <3>1. RunTest \/ RunDep
      BY <1>3, CallsTest
         DEF Next, TestDone, DepPassed, DepFailed, EndTests, vars
    <3>. QED BY <1>3, <3>1, RunsEnter DEF Entered, Enter, Stop
  <2>2. PICK j \in 1 .. Len(stack) : stack[j].test = t
    BY <2>1 DEF OnStack
  <2>3. Len(stack) \in Nat /\ \A k \in 1 .. Len(stack) : stack[k].test \in Tests
    BY FrameType
  <2>. DEFINE loop == {stack[k].test : k \in j .. Len(stack)}
  <2>4. loop \in (SUBSET Tests) \ {{}}
    <3>1. j \in j .. Len(stack) /\ \A k \in j .. Len(stack) : k \in 1 .. Len(stack)
      BY <2>3
    <3>. QED BY <2>3, <3>1
  <2>5. ASSUME NEW k \in j .. Len(stack)
        PROVE  DepsOf(stack[k].test) \intersect loop # {}
    <3>. DEFINE u == stack[k].test
    <3>1. k \in 1 .. Len(stack)
      BY <2>3
    <3>2. /\ stack[k].at \in Nat \ {0} /\ Len(deps[u]) \in Nat
      BY <3>1, FrameType, DepType
    <3>3. \E v \in loop : Awaits(k, v)
      <4>1. CASE k = Len(stack)
        <5>1. t \in loop
          BY <2>2, <2>3
        <5>2. Awaits(k, t)
          BY <2>1, <2>3, <3>1, <4>1, FrameType DEF Entered, Awaited
        <5>. QED BY <5>1, <5>2
      <4>2. CASE k # Len(stack)
        <5>1. k \in 1 .. Len(stack) - 1 /\ k + 1 \in j .. Len(stack)
          BY <2>3, <3>1, <4>2
        <5>. QED BY <5>1 DEF Linked
      <4>. QED BY <4>1, <4>2
    <3>. HIDE DEF loop
    <3>4. PICK v \in loop : Awaits(k, v)
      BY <3>3
    <3>5. v \in DepsOf(u)
      BY <3>2, <3>4 DEF Awaits, DepsOf
    <3>. QED BY <3>4, <3>5
  <2>6. \A u \in loop : DepsOf(u) \intersect loop # {}
    BY <2>5
  <2>7. \A u : DepsOf(u)' = DepsOf(u)
    BY <1>1 DEF DepsOf
  <2>. HIDE DEF loop
  <2>. QED BY <2>4, <2>6, <2>7
<1>. QED BY <1>2, <1>3

\* A test that depends on a failed or skipped test has the same cause.
LEMMA CauseInherited ==
    ASSUME TypeOK, Linked, stack # <<>>, returned # 0, ~passed[returned],
           ran[returned] \/ Caused(returned)
    PROVE  Caused(Top.test)
<1>1. /\ Awaits(Len(stack), returned) /\ returned \in Tests
      /\ Top.at \in Nat \ {0} /\ Top.test \in Tests
  BY TopType DEF Linked, TypeOK
<1>2. returned \in DepsOf(Top.test)
  <2>1. Len(deps[Top.test]) \in Nat
    BY <1>1, DepType
  <2>. QED BY <1>1, <2>1 DEF Awaits, DepsOf, Top
<1>. QED BY <1>1, <1>2 DEF Caused

LEMMA AccountStep ==
    /\ TypeOK /\ Linked /\ StackDiffers /\ Ordered /\ Accounted
    /\ [Next]_vars
    => Accounted'
<1>. SUFFICES ASSUME TypeOK, Linked, StackDiffers, Ordered, Accounted,
                     [Next]_vars
              PROVE  Accounted'
  OBVIOUS
<1>1. CASE RunTest \/ RunDep
  <2>1. UNCHANGED <<deps, ran, passed, next>> /\ ~Ended'
    BY <1>1 DEF RunTest, RunDep, Enter, Stop, Ended
  <2>2. \A t : Caused(t)' <=> Caused(t)
    BY <2>1 DEF Caused, DepsOf
  <2>3. UNCHANGED returned \/ ran[returned']
    BY <1>1 DEF RunTest, RunDep, Enter, Stop
  <2>. QED BY <2>1, <2>2, <2>3 DEF Accounted
<1>2. CASE TestDone
  <2>1. returned = next /\ next \in Nat /\ next' = next + 1 /\ returned' = 0
        /\ ~Ended' /\ UNCHANGED <<deps, ran, passed>>
    BY <1>2 DEF TestDone, Linked, TypeOK, Ended
  <2>2. \A t : Caused(t)' <=> Caused(t)
    BY <2>1 DEF Caused, DepsOf
  <2>3. \A t \in 1 .. next' - 1 : t \in 1 .. next - 1 \/ t = next
    BY <2>1
  <2>. QED BY <1>2, <2>1, <2>2, <2>3 DEF TestDone, Accounted
<1>3. CASE DepPassed
  BY <1>3 DEF DepPassed, Accounted, Caused, DepsOf, Ended
<1>4. CASE DepFailed
  <2>1. Caused(Top.test)
    BY <1>4, CauseInherited DEF DepFailed, Accounted
  <2>2. \A t : Caused(t)' <=> Caused(t)
    BY <1>4 DEF DepFailed, Caused, DepsOf
  <2>. QED BY <1>4, <2>1, <2>2 DEF DepFailed, Accounted, Ended
<1>5. CASE CallTest
  <2>1. CASE outcome' = "assertion" /\ UNCHANGED <<ran, passed, returned>>
    BY <1>5, <2>1, CallsTest DEF Accounted, Caused, DepsOf, Ended
  <2>2. CASE /\ returned' = Top.test /\ outcome' = outcome
             /\ ran' = [ran EXCEPT ![Top.test] = TRUE]
             /\ \E p \in BOOLEAN : passed' = [passed EXCEPT ![Top.test] = p]
    <3>. DEFINE t == Top.test
    <3>1. t \in Tests /\ ~ran[t] /\ Running /\ UNCHANGED <<deps, next>>
      BY <1>5, CallsTest, TopType DEF StackDiffers
    <3>2. ran'[t] /\ \A u \in Tests : u # t =>
                        ran'[u] = ran[u] /\ passed'[u] = passed[u]
      BY <2>2, <3>1 DEF TypeOK
    <3>3. \A u \in Tests : ran[u] /\ ~passed[u] => ran'[u] /\ ~passed'[u]
      BY <3>1, <3>2
    <3>. HIDE DEF t
    <3>4. \A u : Caused(u) => Caused(u)'
      BY <3>1, <3>3 DEF Caused, DepsOf
    <3>5. \A u \in Tests : ran[u] => ran'[u]
      BY <3>1, <3>2
    <3>6. \A u \in 1 .. next - 1 : u \in Tests
      BY TestsAssumption DEF TypeOK, Tests
    <3>. QED BY <2>2, <3>1, <3>2, <3>4, <3>5, <3>6 DEF Accounted, Ended, t
  <2>. QED BY <1>5, <2>1, <2>2, CallsTest
<1>6. CASE EndTests \/ UNCHANGED vars
  <2>1. /\ UNCHANGED <<deps, ran, passed, next, returned>>
        /\ Ended' => Ended \/ next > TestsLen
    BY <1>6 DEF EndTests, vars, Ended
  <2>2. \A t : Caused(t)' <=> Caused(t)
    BY <2>1 DEF Caused, DepsOf
  <2>. QED BY <2>1, <2>2 DEF Accounted
<1>. QED BY <1>1, <1>2, <1>3, <1>4, <1>5, <1>6 DEF Next

LEMMA AccountedSkips == TypeOK /\ Ordered /\ Accounted => SkippedForCause
<1>. SUFFICES ASSUME TypeOK, Accounted, Ended,
                     NEW closed \in SUBSET Tests,
                     \A t \in closed : DepsOf(t) \intersect Tests \subseteq closed,
                     NEW t \in closed, ~ran[t]
              PROVE  \E u \in closed : ran[u] /\ ~passed[u]
  BY DEF SkippedForCause
<1>1. t \in 1 .. next - 1
  BY TestsAssumption DEF Accounted, TypeOK, Tests
<1>. QED BY <1>1 DEF Accounted, Caused

-----------------------------------------------------------------------------
LEMMA InvariantInit == Init => IInv
<1>. SUFFICES ASSUME Init PROVE IInv
  OBVIOUS
<1>1. TypeOK /\ Linked
  BY TypeInit
<1>2. Len(stack) = 0 /\ next = 1 /\ returned = 0 /\ ~Ended
  BY EmptySeq DEF Init, Ended
<1>3. StackDiffers
  BY <1>2 DEF StackDiffers
<1>4. Ordered
  BY <1>2 DEF Init, Ordered, OnceInOrder
<1>5. LoopIsReal /\ Accounted
  BY <1>2 DEF Init, LoopIsReal, Accounted
<1>. QED BY <1>1, <1>3, <1>4, <1>5 DEF IInv

LEMMA InvariantStep == IInv /\ [Next]_vars => IInv'
BY TypeStep, LinkStep, StackStep, OrderStep, LoopStep, AccountStep DEF IInv

\* Every variable of the runner keeps its type, and no frame goes past the end
\* of the list it walks (debug.cpp:219-232).
THEOREM TypeCorrect == Spec => []TypeOK
<1>1. IInv => TypeOK
  BY DEF IInv
<1>. QED BY InvariantInit, InvariantStep, <1>1, PTL DEF Spec

\* A test function is called once at most, and after all it depends on passed,
\* for any tests and dependencies (debug.cpp:208-254).
THEOREM OrderCorrect == Spec => []OnceInOrder
<1>1. IInv => OnceInOrder
  BY DEF IInv, Ordered
<1>. QED BY InvariantInit, InvariantStep, <1>1, PTL DEF Spec

\* The buffer of names that run_tests allocates never overflows, loops of
\* dependencies included (debug.cpp:214, 260).
THEOREM BufferCorrect == Spec => []BufferFits
<1>1. IInv => BufferFits
  BY StackBound DEF IInv
<1>. QED BY InvariantInit, InvariantStep, <1>1, PTL DEF Spec

\* No loop is reported that is not one (debug.cpp:190-206).
THEOREM LoopCorrect == Spec => []LoopIsReal
<1>1. IInv => LoopIsReal
  BY DEF IInv
<1>. QED BY InvariantInit, InvariantStep, <1>1, PTL DEF Spec

\* When the runner has come to its end, a test that has not run depends on one
\* that failed (debug.cpp:227, 251).
THEOREM SkipsCorrect == Spec => []SkippedForCause
<1>1. IInv => SkippedForCause
  BY AccountedSkips DEF IInv
<1>. QED BY InvariantInit, InvariantStep, <1>1, PTL DEF Spec

-----------------------------------------------------------------------------
(* The runner comes to an end: what run_tests and the calls of run() have    *)
(* still to do, outermost first, lessens with every step in the order of     *)
(* dictionaries.  A test that was skipped may be entered again and again, so *)
(* that no count of tests would do.                                          *)

\* What run_tests (0) or frame k has still to do; nothing stands for a frame
\* there is not yet.  A call that returned counts half.
Due(k) ==
    IF k = 0
    THEN << IF ~Running THEN 0
            ELSE 2 * (TestsLen + 1 - next) + 1
                 - (IF stack = <<>> /\ returned # 0 THEN 1 ELSE 0) >>
    ELSE IF k <= Len(stack)
    THEN << 2 * (Len(deps[stack[k].test]) + 1 - stack[k].at) + 1
            - (IF k = Len(stack) /\ returned # 0 THEN 1 ELSE 0) >>
    ELSE <<>>

\* A frame has less to do than one that is still to be entered.
Less(a, b) == a # <<>> /\ (b = <<>> \/ (a[1] \in Nat /\ b[1] \in Nat /\ a[1] < b[1]))

\* There are at most TestsLen frames: the order is well-founded.
Lessens ==
    \E k \in 0 .. TestsLen :
        Less(Due(k)', Due(k)) /\ \A j \in 0 .. k - 1 : Due(j)' = Due(j)

Progress == [][Lessens]_vars

\* The numbers that it is made of.
DueOK ==
    /\ TestsLen \in Nat /\ next \in Nat /\ next <= TestsLen + 1
    /\ Len(stack) \in Nat /\ Len(stack) <= TestsLen
    /\ \A k \in 1 .. Len(stack) :
          /\ Len(deps[stack[k].test]) \in Nat /\ stack[k].at \in Nat
          /\ stack[k].at <= Len(deps[stack[k].test]) + 1
    /\ returned # 0 /\ stack # <<>> => Top.at <= Len(deps[Top.test])
    /\ returned # 0 /\ stack = <<>> => next <= TestsLen

LEMMA DueNow == IInv => DueOK
<1>. SUFFICES ASSUME IInv PROVE DueOK
  OBVIOUS
<1>1. TestsLen \in Nat /\ next \in 1 .. TestsLen + 1
  BY TestsAssumption DEF IInv, TypeOK
<1>2. Len(stack) \in Nat /\ Len(stack) <= TestsLen
  BY FrameType, StackBound DEF IInv, BufferFits
<1>3. \A k \in 1 .. Len(stack) :
         /\ Len(deps[stack[k].test]) \in Nat /\ stack[k].at \in Nat
         /\ stack[k].at <= Len(deps[stack[k].test]) + 1
  BY FrameType, DepType DEF IInv, TypeOK
<1>4. /\ returned # 0 /\ stack # <<>> => Top.at <= Len(deps[Top.test])
      /\ returned # 0 /\ stack = <<>> => next <= TestsLen
  BY DEF IInv, Linked, Awaits, Top
<1>. QED BY <1>1, <1>2, <1>3, <1>4 DEF DueOK

LEMMA DueNext == (IInv => DueOK)'
BY DueNow, PTL

LEMMA StopLessens ==
    ASSUME IInv, Running, outcome' # "running"
    PROVE  Lessens
<1>1. Due(0)' = <<0>>
  BY DEF Due
<1>2. PICK m \in Nat : Due(0) = <<m>> /\ m > 0
  BY DueNow DEF Due, DueOK
<1>3. 0 \in 0 .. TestsLen /\ 0 .. 0 - 1 = {}
  BY DueNow DEF DueOK
<1>. QED BY <1>1, <1>2, <1>3 DEF Lessens, Less

\* A call to run() that returns at once.
LEMMA ReturnLessens ==
    ASSUME IInv, IInv', Running, returned = 0, returned' # 0,
           UNCHANGED <<deps, next, stack, outcome>>
    PROVE  Lessens
<1>. DEFINE n == Len(stack)
<1>1. n \in Nat /\ n <= TestsLen /\ (n = 0 <=> stack = <<>>) /\ stack' = stack
  BY DueNow, FrameType DEF IInv, DueOK
<1>2. Less(Due(n)', Due(n))
  <2>1. CASE n = 0
    <3>1. PICK m \in Nat : m = 2 * (TestsLen + 1 - next) /\ m >= 2
      BY <1>1, <2>1, DueNow, DueNext DEF DueOK
    <3>2. Due(n) = <<m + 1>> /\ Due(n)' = <<m>>
      BY <1>1, <2>1, <3>1 DEF Due
    <3>. QED BY <3>2 DEF Less
  <2>2. CASE n # 0
    <3>1. /\ Len(deps[stack[n].test]) \in Nat /\ stack[n].at \in Nat
          /\ stack[n].at <= Len(deps[stack[n].test]) + 1
      BY <1>1, <2>2, DueNow DEF DueOK
    <3>2. PICK m \in Nat : m = 2 * (Len(deps[stack[n].test]) + 1 - stack[n].at)
      BY <3>1
    <3>3. Due(n) = <<m + 1>> /\ Due(n)' = <<m>>
      BY <1>1, <2>2, <3>2 DEF Due
    <3>. QED BY <3>3 DEF Less
  <2>. QED BY <2>1, <2>2
<1>3. \A j \in 0 .. n - 1 : Due(j)' = Due(j)
  BY <1>1 DEF Due
<1>. QED BY <1>1, <1>2, <1>3 DEF Lessens

LEMMA PushLessens ==
    ASSUME IInv, IInv', Running, NEW t \in Tests, returned = 0, stack' = Pushed(t),
           UNCHANGED <<deps, next, returned, outcome>>
    PROVE  Lessens
<1>1. PICK n : /\ n \in Nat /\ n <= TestsLen /\ n # 0
               /\ Len(stack') = n /\ Len(stack) = n - 1
               /\ \A k \in 1 .. n - 1 : stack'[k] = stack[k]
  BY PushStep, DueNext DEF IInv, DueOK
<1>2. Due(n) = <<>> /\ Due(n)' # <<>>
  BY <1>1 DEF Due
<1>3. ASSUME NEW j \in 0 .. n - 1 PROVE Due(j)' = Due(j)
  <2>1. /\ j # 0 => j <= Len(stack) /\ j <= Len(stack') /\ stack'[j] = stack[j]
        /\ stack' # <<>>
    BY <1>1, PushStep DEF IInv
  <2>. QED BY <2>1 DEF Due
<1>4. n \in 0 .. TestsLen
  BY <1>1, DueNow DEF DueOK
<1>. QED BY <1>2, <1>3, <1>4 DEF Lessens, Less

\* The frame of a call is popped, and its caller goes on.
LEMMA PopLessens ==
    ASSUME IInv, IInv', Running, stack # <<>>, stack' = Popped, returned' # 0,
           UNCHANGED <<deps, next, outcome>>
    PROVE  Lessens
<1>1. PICK n : /\ n \in Nat /\ n < TestsLen /\ Len(stack') = n /\ Len(stack) = n + 1
               /\ \A k \in 1 .. n : stack'[k] = stack[k]
               /\ stack' = <<>> <=> n = 0
  <2>1. /\ Len(stack) \in Nat \ {0} /\ Len(stack') = Len(stack) - 1
        /\ \A k \in 1 .. Len(stack') : stack'[k] = stack[k]
        /\ stack' \in Seq(Frames)
    BY PopStep DEF IInv
  <2>2. Len(stack) <= TestsLen /\ TestsLen \in Nat
    BY DueNow DEF DueOK
  <2>3. stack' = <<>> <=> Len(stack') = 0
    BY <2>1, EmptySeq
  <2>. QED BY <2>1, <2>2, <2>3
<1>2. Less(Due(n)', Due(n))
  <2>1. CASE n = 0
    <3>1. next <= TestsLen
      BY DEF IInv, Linked
    <3>2. PICK m \in Nat : m = 2 * (TestsLen + 1 - next)
      BY <3>1, DueNow DEF DueOK
    <3>3. Due(n) = <<m + 1>> /\ Due(n)' = <<m>>
      BY <1>1, <2>1, <3>2 DEF Due
    <3>. QED BY <3>3 DEF Less
  <2>2. CASE n # 0
    <3>1. n \in 1 .. Len(stack) /\ n # Len(stack) /\ stack'[n] = stack[n]
      BY <1>1, <2>2
    <3>2. /\ Len(deps[stack[n].test]) \in Nat /\ stack[n].at \in Nat
          /\ stack[n].at <= Len(deps[stack[n].test]) + 1
      BY <3>1, DueNow DEF DueOK
    <3>3. PICK m \in Nat : m = 2 * (Len(deps[stack[n].test]) + 1 - stack[n].at)
      BY <3>2
    <3>4. Due(n) = <<m + 1>> /\ Due(n)' = <<m>>
      BY <1>1, <2>2, <3>1, <3>3 DEF Due
    <3>. QED BY <3>4 DEF Less
  <2>. QED BY <2>1, <2>2
<1>3. ASSUME NEW j \in 0 .. n - 1 PROVE Due(j)' = Due(j)
  BY <1>1 DEF Due
<1>4. n \in 0 .. TestsLen
  BY <1>1, DueNow DEF DueOK
<1>. QED BY <1>2, <1>3, <1>4 DEF Lessens

\* The caller looks at its next dependency.
LEMMA AdvanceLessens ==
    ASSUME IInv, IInv', Running, stack # <<>>, stack' = Advanced, returned # 0,
           returned' = 0, UNCHANGED <<deps, next, outcome>>
    PROVE  Lessens
<1>1. PICK n : /\ n \in Nat /\ n # 0 /\ n <= TestsLen
               /\ Len(stack) = n /\ Len(stack') = n
               /\ \A k \in 1 .. n : stack'[k].test = stack[k].test
               /\ \A k \in 1 .. n - 1 : stack'[k].at = stack[k].at
               /\ stack'[n].at = stack[n].at + 1
  <2>. DEFINE l == Len(stack)
  <2>1. /\ l \in Nat \ {0} /\ Len(stack') = l
        /\ \A k \in 1 .. l :
              /\ stack'[k].test = stack[k].test
              /\ stack'[k].at = IF k = l THEN stack[l].at + 1 ELSE stack[k].at
    BY AdvanceStep DEF IInv, Top
  <2>2. l <= TestsLen
    BY DueNow DEF DueOK
  <2>3. /\ \A k \in 1 .. l - 1 : stack'[k].at = stack[k].at
        /\ stack'[l].at = stack[l].at + 1
    BY <2>1
  <2>. WITNESS l
  <2>. QED BY <2>1, <2>2, <2>3
<1>2. Less(Due(n)', Due(n))
  <2>1. /\ Len(deps[stack[n].test]) \in Nat /\ stack[n].at \in Nat
        /\ stack[n].at <= Len(deps[stack[n].test])
    BY <1>1, DueNow DEF Top, DueOK
  <2>2. PICK m \in Nat : m = 2 * (Len(deps[stack[n].test]) - stack[n].at)
    BY <2>1
  <2>3. Due(n) = <<m + 2>>
    <3>1. \A a, b \in Nat : 2 * (a + 1 - b) + 1 - 1 = 2 * (a - b) + 2
      OBVIOUS
    <3>2. 2 * (Len(deps[stack[n].test]) + 1 - stack[n].at) + 1 - 1 = m + 2
      BY <2>1, <2>2, <3>1
    <3>. QED BY <1>1, <3>2 DEF Due
  <2>4. Due(n)' = <<m + 1>>
    BY <1>1, <2>1, <2>2 DEF Due
  <2>. QED BY <2>3, <2>4 DEF Less
<1>3. ASSUME NEW j \in 0 .. n - 1 PROVE Due(j)' = Due(j)
  <2>1. (stack = <<>>) = FALSE /\ (stack' = <<>>) = FALSE
    <3>1. stack' \in Seq(Frames) /\ Len(stack') # 0
      BY <1>1 DEF IInv, TypeOK
    <3>. QED BY <3>1, EmptySeq
  <2>. QED BY <1>1, <2>1 DEF Due
<1>4. n \in 0 .. TestsLen
  BY <1>1, DueNow DEF DueOK
<1>. QED BY <1>2, <1>3, <1>4 DEF Lessens

LEMMA StepLessens == IInv /\ IInv' /\ Next => Lessens
<1>. SUFFICES ASSUME IInv, IInv', Next PROVE Lessens
  OBVIOUS
<1>0. TypeOK
  BY DEF IInv
<1>1. CASE RunTest \/ RunDep
  <2>0. Running
    BY <1>1 DEF RunTest, RunDep
  <2>1. ASSUME NEW t \in Tests, Entered(t) PROVE Lessens
    <3>1. t # 0
      BY DEF Tests
    <3>. QED BY <2>0, <2>1, <3>1, StopLessens, ReturnLessens, PushLessens
         DEF Entered, Enter, Stop, Pushed
  <2>2. CASE RunDep /\ outcome' = "unknown"
    BY <2>0, <2>2, StopLessens
  <2>. QED BY <1>0, <1>1, <2>1, <2>2, RunsEnter
<1>2. CASE TestDone
  <2>1. next <= TestsLen /\ next \in Nat /\ TestsLen \in Nat
    BY <1>2, DueNow DEF TestDone, DueOK
  <2>2. PICK m \in Nat : m = 2 * (TestsLen - next)
    BY <2>1
  <2>3. Due(0) = <<m + 2>> /\ Due(0)' = <<m + 1>>
    BY <1>2, <2>1, <2>2 DEF TestDone, Due
  <2>4. 0 \in 0 .. TestsLen /\ 0 .. 0 - 1 = {}
    BY <2>1
  <2>. QED BY <2>3, <2>4 DEF Lessens, Less
<1>3. CASE DepPassed
  BY <1>3, AdvanceLessens DEF DepPassed, Advanced
<1>4. CASE DepFailed
  <2>1. Top.test # 0
    BY <1>0, <1>4, TopType DEF DepFailed, Tests
  <2>. QED BY <1>4, <2>1, PopLessens DEF DepFailed
<1>5. CASE CallTest
  <2>1. Top.test # 0
    BY <1>0, <1>5, CallsTest, TopType DEF Tests
  <2>. QED BY <1>0, <1>5, <2>1, CallsTest, PopLessens, StopLessens
<1>6. CASE EndTests
  BY <1>6, StopLessens DEF EndTests
<1>. QED BY <1>1, <1>2, <1>3, <1>4, <1>5, <1>6 DEF Next

\* Whatever the dependencies are, loops and unknown names included, the runner
\* takes finitely many steps (debug.cpp:208-254): what RunEnds needs besides
\* fairness.
THEOREM ProgressCorrect == Spec => Progress
<1>1. IInv /\ IInv' /\ [Next]_vars => [Lessens]_vars
  BY StepLessens
<1>. QED BY InvariantInit, InvariantStep, <1>1, PTL DEF Spec, Progress
=============================================================================
