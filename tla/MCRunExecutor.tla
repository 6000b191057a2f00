---------------------------- MODULE MCRunExecutor ----------------------------
(* The instances of RunExecutor that TLC checks: the values its configurations give to the
   constants. *)
EXTENDS RunExecutor, TLC

\* One run: a precondition and two steps that each register a cleanup.
OneClaim == 1 :> {"a"}
ThreeSteps == 1 :> {1, 2, 3}
OneCleanupEach == 12 :> 2 @@ 13 :> 3

\* Two runs of one step that collide, the second with everything; the first registers a cleanup.
OwnAndGlobal == 1 :> {"a"} @@ 2 :> {"g"}
OneStep == 1 :> {2} @@ 2 :> {1}
CleanupOfFirst == 12 :> 2

\* Two runs that share one claim.
SharedClaim == [r \in {1, 2} |-> {"a"}]
TwoStepsAndOne == 1 :> {1, 2} @@ 2 :> {1}
NoCleanup == [c \in {} |-> 1]

=============================================================================
