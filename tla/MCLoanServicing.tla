-------------------------- MODULE MCLoanServicing --------------------------
(* A three-cent loan in two installments, due on days 0 and 1.             *)
EXTENDS ServicingStatus, TLC

MCPriority == [interest |-> 1, principal |-> 2, fees |-> 3]
MCItems    == 1 .. 2
MCTotal    == 1 :> 2 @@ 2 :> 2
MCDue      == 1 :> 0 @@ 2 :> 1
=============================================================================
