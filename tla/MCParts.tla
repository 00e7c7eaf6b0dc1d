------------------------------ MODULE MCParts -------------------------------
(* The start of the program (MCStartup), the request loops of its compiled *)
(* tests (MCRequests) and the Windows shims (MCWinThreads), for TLC in one *)
(* run.  They share no state: a behaviour is one of one of them.           *)
EXTENDS MCStartup, MCRequests, MCWinThreads

VARIABLE part  \* whose behaviour it is

partVars == <<part, mainVars, vars, winVars>>

InStart == part = "start" /\ UNCHANGED <<part, vars, winVars>>
InTests == part = "tests" /\ UNCHANGED <<part, mainVars, winVars>>
InShims == part = "shims" /\ UNCHANGED <<part, mainVars, vars>>

(* The other parts rest in one of their initial states. *)
PartsInit ==
  /\ MainInit /\ Init /\ WinInit
  /\ part \in {"start", "tests", "shims"}
  /\ part # "start" => argv = <<>>
  /\ part # "tests" => cfg = [test |-> "cpu", prime |-> 0]
  /\ part # "shims" => wakes = "signal"

(* The shims' generator stops; the runners then wait for ever. *)
Stopped == ~ENABLED WinNext /\ UNCHANGED winVars

PartsNext ==
  \/ InStart /\ MainNext
  \/ InTests /\ Next
  \/ InShims /\ (WinNext \/ Stopped)

(* The fairness of Requests and of WinThreads. *)
PartsSpec ==
  /\ PartsInit /\ [][PartsNext]_partVars
  /\ WF_partVars(InTests /\ TestInit)
  /\ \A t \in Threads : WF_partVars(InTests /\ RunnerStep(t))
  /\ WF_partVars(InTests /\ CheckpointReset)
  /\ WF_partVars(InTests /\ FinalPrint) /\ WF_partVars(InTests /\ FinalReset)
  /\ WF_partVars(InTests /\ TestDone)
  /\ WF_partVars(InShims /\ GeneratorStep)
  /\ \A r \in Runners : WF_partVars(InShims /\ WaiterStep(r))
-----------------------------------------------------------------------------
(* Finishes of Requests: every compiled test's run ends, whatever its      *)
(* runners do to each other on the mutexes of the test.                    *)
TestsFinish == part = "tests" => Finishes

(* Served of WinThreads: with the emulated condition variable every event  *)
(* of the generator is taken, or a runner has ended.                       *)
ShimsServe == part = "shims" => Served
=============================================================================
