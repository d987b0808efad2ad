----------------------------- MODULE TestRunner -----------------------------
(***************************************************************************)
(* The runner of the unit tests (debug.cpp:151-286), which begin_main      *)
(* calls before the program proper (prelude.cpp:95).  run() is recursive:  *)
(* it runs the dependencies of a test, in the order they are listed and    *)
(* each by a call of itself, and then the test.  A test that failed, or    *)
(* was not run, keeps its dependants from running.  A dependency that is   *)
(* not installed, a loop and a failed assertion end the program.           *)
(*                                                                         *)
(* A test is its place in tests_ptr, which stands for its name too; the    *)
(* list of dependencies is the sequence of the names in it.  The frames of *)
(* run() are the stack, and their tests the names in the buffer "srcs".    *)
(***************************************************************************)
EXTENDS Naturals, Sequences

CONSTANTS
    TestsLen,   \* tests_len: how many tests are installed
    Unknown,    \* a name that no installed test has
    DepLists    \* the lists of dependencies a test may be installed with

Tests == 1 .. TestsLen

ASSUME TestsAssumption ==
    /\ TestsLen \in Nat
    /\ Unknown \notin Tests /\ 0 # Unknown
    /\ DepLists \subseteq Seq(Tests \union {Unknown})

VARIABLES
    deps,           \* deps[t]: the list t was installed with
    ran, passed,    \* the two flags of each test
    test_failure,   \* the global that run_tests looks at in the end
    next,           \* the loop of run_tests: the test it is about
    stack,          \* the frames of run(): a test and which of its deps is due
    returned,       \* the test whose run() has returned to the frame, or 0
    outcome,        \* "running", or how run_tests or the program has ended
    calls,          \* history: how often each test function was called
    broken          \* history: tests in which some proof did not hold

vars == <<deps, ran, passed, test_failure, next, stack, returned, outcome,
          calls, broken>>

Frames == [test : Tests, at : Nat \ {0}]

Outcomes == {"running", "unknown", "loop", "assertion", "tests passed", "quiet"}

TypeOK ==
    /\ deps \in [Tests -> DepLists]
    /\ ran \in [Tests -> BOOLEAN]
    /\ passed \in [Tests -> BOOLEAN]
    /\ test_failure \in BOOLEAN
    /\ next \in 1 .. TestsLen + 1
    /\ stack \in Seq(Frames)
    /\ \A k \in 1 .. Len(stack) : stack[k].at <= Len(deps[stack[k].test]) + 1
    /\ returned \in Tests \union {0}
    /\ outcome \in Outcomes
    /\ calls \in [Tests -> Nat]
    /\ broken \subseteq Tests

\* install_test has been called for every test, by the constructors of the
\* globals that define_test defines.
Init ==
    /\ deps \in [Tests -> DepLists]
    /\ ran = [t \in Tests |-> FALSE]
    /\ passed = [t \in Tests |-> FALSE]
    /\ test_failure = FALSE
    /\ next = 1
    /\ stack = <<>>
    /\ returned = 0
    /\ outcome = "running"
    /\ calls = [t \in Tests |-> 0]
    /\ broken = {}

Top == stack[Len(stack)]

Popped == SubSeq(stack, 1, Len(stack) - 1)

OnStack(t) == \E k \in 1 .. Len(stack) : stack[k].test = t

Stop(how) == outcome' = how /\ UNCHANGED <<stack, returned>>

\* Mutants of the beginning of run(): no assert_no_loop; the name pushed before
\* the loop is looked for.
EnterUnchecked(t) ==
    IF ran[t] THEN returned' = t /\ UNCHANGED <<stack, outcome>>
    ELSE stack' = Append(stack, [test |-> t, at |-> 1])
         /\ UNCHANGED <<returned, outcome>>

EnterPushed(t) ==
    IF ran[t] THEN returned' = t /\ UNCHANGED <<stack, outcome>>
    ELSE Stop("loop")

\* run(t), up to its loop.
Enter(t) ==
    \/ /\ ran[t]
       /\ returned' = t
       /\ UNCHANGED <<stack, outcome>>
    \/ /\ ~ran[t] /\ OnStack(t)
       /\ Stop("loop")
    \/ /\ ~ran[t] /\ ~OnStack(t)
       /\ stack' = Append(stack, [test |-> t, at |-> 1])
       /\ UNCHANGED <<returned, outcome>>

\* What calling the function of a test can come to: its proofs hold; one does
\* not and the function returns a message; only a prove_same does not, which
\* makes the message and goes on; an assertion fails.
Results == {"holds", "message", "message dropped", "assertion"}

-----------------------------------------------------------------------------
Running == outcome = "running"

\* run_tests calls run().
RunTest ==
    /\ Running /\ stack = <<>> /\ returned = 0 /\ next <= TestsLen
    /\ Enter(next)
    /\ UNCHANGED <<deps, ran, passed, test_failure, next, calls, broken>>

\* Mutant: run_tests stops at the first test that does not pass.
TestDoneStops ==
    /\ Running /\ stack = <<>> /\ returned # 0
    /\ next' = IF passed[returned] THEN next + 1 ELSE TestsLen + 1
    /\ returned' = 0
    /\ UNCHANGED <<deps, ran, passed, test_failure, stack, outcome, calls,
                   broken>>

TestDone ==
    /\ Running /\ stack = <<>> /\ returned # 0
    /\ next' = next + 1
    /\ returned' = 0
    /\ UNCHANGED <<deps, ran, passed, test_failure, stack, outcome, calls,
                   broken>>

\* The loop over the dependencies: find_test and the recursive call.
RunDep ==
    /\ Running /\ stack # <<>> /\ returned = 0
    /\ Top.at <= Len(deps[Top.test])
    /\ LET dep == deps[Top.test][Top.at]
       IN  \/ dep = Unknown /\ Stop("unknown")
           \/ dep # Unknown /\ Enter(dep)
    /\ UNCHANGED <<deps, ran, passed, test_failure, next, calls, broken>>

DepPassed ==
    /\ Running /\ stack # <<>> /\ returned # 0
    /\ passed[returned]
    /\ stack' = [stack EXCEPT ![Len(stack)].at = @ + 1]
    /\ returned' = 0
    /\ UNCHANGED <<deps, ran, passed, test_failure, next, outcome, calls,
                   broken>>

\* Mutants: goes on with the next dependency; asks for the same one again.
DepFailedGoesOn ==
    /\ Running /\ stack # <<>> /\ returned # 0
    /\ ~passed[returned]
    /\ stack' = [stack EXCEPT ![Len(stack)].at = @ + 1]
    /\ returned' = 0
    /\ UNCHANGED <<deps, ran, passed, test_failure, next, outcome, calls,
                   broken>>

DepFailedRetries ==
    /\ Running /\ stack # <<>> /\ returned # 0
    /\ ~passed[returned]
    /\ returned' = 0
    /\ UNCHANGED <<deps, ran, passed, test_failure, next, stack, outcome,
                   calls, broken>>

\* The loop is left and the test is NOTRUN: neither flag is set.
DepFailed ==
    /\ Running /\ stack # <<>> /\ returned # 0
    /\ ~passed[returned]
    /\ stack' = Popped
    /\ returned' = Top.test
    /\ UNCHANGED <<deps, ran, passed, test_failure, next, outcome, calls,
                   broken>>

\* All dependencies passed: the function is called and its result noted.
CallTest ==
    /\ Running /\ stack # <<>> /\ returned = 0
    /\ Top.at > Len(deps[Top.test])
    /\ \E result \in Results :
          /\ calls' = [calls EXCEPT ![Top.test] = @ + 1]
          /\ broken' = IF result = "holds" THEN broken
                       ELSE broken \union {Top.test}
          /\ IF result = "assertion"
             THEN Stop("assertion") /\ UNCHANGED <<ran, passed>>
             ELSE /\ stack' = Popped
                  /\ returned' = Top.test
                  /\ ran' = [ran EXCEPT ![Top.test] = TRUE]
                  /\ passed' = [passed EXCEPT ![Top.test] = result # "message"]
                  /\ UNCHANGED outcome
    /\ UNCHANGED <<deps, test_failure, next>>

\* The loop of run_tests is over; the report is not made if there was a
\* failure.
EndTests ==
    /\ Running /\ stack = <<>> /\ returned = 0 /\ next > TestsLen
    /\ outcome' = IF test_failure THEN "quiet" ELSE "tests passed"
    /\ UNCHANGED <<deps, ran, passed, test_failure, next, stack, returned,
                   calls, broken>>

Next ==
    \/ RunTest \/ TestDone \/ EndTests
    \/ RunDep \/ DepPassed \/ DepFailed
    \/ CallTest

Spec == Init /\ [][Next]_vars

\* One thread runs the tests, and each test function returns.
FairSpec == Spec /\ WF_vars(Next)

-----------------------------------------------------------------------------
DepsOf(t) == {deps[t][i] : i \in 1 .. Len(deps[t])}

Ended == outcome \in {"tests passed", "quiet"}

\* A test function is called once at most, however many tests depend on it,
\* and only after all its dependencies passed (debug.cpp:210, 227, 238-241).
OnceInOrder ==
    \A t \in Tests :
        /\ calls[t] <= 1
        /\ calls[t] = 1 => \A d \in DepsOf(t) : d # Unknown /\ passed[d]

\* The names on the stack never need more room than run_tests allocated for
\* them (debug.cpp:214, 260).
BufferFits == Len(stack) <= TestsLen

\* The program is ended for a dependency loop only if there is one: tests each
\* of which depends on one of them (debug.cpp:190-206).
LoopIsReal ==
    outcome = "loop" =>
        \E loop \in (SUBSET Tests) \ {{}} :
            \A t \in loop : DepsOf(t) \intersect loop # {}

\* When the runner has come to its end every test has run, but for those that
\* depend, maybe through others, on one that failed: every set of tests with
\* their dependencies that has a test not run has a failed one.  In particular
\* no test is skipped because of a loop (debug.cpp:227, 251, 266).
SkippedForCause ==
    Ended => \A closed \in SUBSET Tests :
                (\A t \in closed : DepsOf(t) \intersect Tests \subseteq closed)
                => \/ \A t \in closed : ran[t]
                   \/ \E t \in closed : ran[t] /\ ~passed[t]

\* Whatever the dependencies are, the runner ends (debug.cpp:208-254).
RunEnds == <>~Running

\* "developer unit tests passed" (debug.cpp:281-282) is said only if all did.
ReportIsTrue == outcome = "tests passed" => \A t \in Tests : passed[t]

\* "[-- PASSED --]" (debug.cpp:242-245) is said only of tests in which all
\* that is to be proved holds.
PassedIsProved == \A t \in Tests : passed[t] => t \notin broken
=============================================================================
