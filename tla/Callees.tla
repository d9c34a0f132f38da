------------------------------- MODULE Callees -------------------------------
(***************************************************************************)
(* The functions that expressions and their code call.                     *)
(***************************************************************************)
EXTENDS Naturals

CONSTANTS
  Entries,  (* The functions that can be called,                           *)
  Arity,    (* how many arguments each takes                               *)
  Results   (* and how many values each returns.                           *)

ASSUME EntriesAssumption == /\ Arity \in [Entries -> Nat]
                            /\ Results \in [Entries -> Nat \ {0}]

=============================================================================
