------------------------------- MODULE Scenario -------------------------------
(***************************************************************************)
(* The monitor under the requests that compiler.cpp makes for one given    *)
(* function of the language, in their order.                               *)
(***************************************************************************)
EXTENDS Monitor

CONSTANT Script  (* The requests, each with its kind.                      *)

VARIABLE pc      (* The next request.                                      *)

scenarioVars == <<m, brackets, mode, pc>>

Running == pc \in DOMAIN Script

Request == Script[pc]

Is(kind) == Request.kind = kind

Step ==
  /\ Running
  /\ pc' = pc + 1
  /\ \/ Is("operate") /\ Operate(Request.effect)
     \/ Is("call")    /\ Call(Request.callee)
     \/ Is("bra")     /\ Bra
     \/ Is("alloca")  /\ (Alloca \/ AllocaAborts)
     \/ Is("ret")     /\ (Ret \/ RetAborts)
     \/ Is("ket")     /\ Leave

ScenarioSpec == Init /\ pc = 1 /\ [][Step]_scenarioVars

(* assert(local_variables_count_ == frame_used_) of verify_stack_access:   *)
(* when a local variable is declared, no temporary lies in the frame.      *)
NothingSpilledAtAlloca ==
  Running /\ Is("alloca") => m.locals = m.frameUsed

=============================================================================
