---------------------------- MODULE MCJobSequence ----------------------------
(* Instances of JobSequence and of its relation to TaskScheduler.          *)
EXTENDS RunnerOfScheduler

CONSTANTS r1, r2

(* Everything but the handler of SIGTERM may raise, or the handler and the *)
(* finalizers may.                                                         *)
MCFailureMode == {{"prepare", "finalize", "finish"}, {"terminate", "finalize"}}
=============================================================================
