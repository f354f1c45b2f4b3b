----------------------------- MODULE MCDemoRun -----------------------------
(* DemoRun on small instances: values for the constants of its runs.       *)
EXTENDS DemoRun, TLC

CONSTANTS r1, r2

\* One POST with every fault but a denial answered with an error, or two
\* POSTs, with equal or different keys, when nothing fails.
OneOrTwo == {[posts |-> {r1}, faults |-> FaultKinds \ {"guard_reply"}],
             [posts |-> {r1, r2}, faults |-> {}]}

One(faultKinds) ==
    {[posts |-> {r1}, faults |-> faultKinds \cup {"silence"}]}
Cancelled   == One({})
Unconfirmed == One({"guard_reply"})
Unreachable == One({"runner"})
Restarting  == One({"workflow", "restart", "guard_reply"})

\* POSTs and keys are told apart by nothing but their names, once every run may
\* be cancelled.  CHOOSE picks the active run out of at most one.
NameSymmetry == Permutations(Requests) \cup Permutations(Keys)
=============================================================================
