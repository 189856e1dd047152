------------------------------ MODULE Service ------------------------------
(***************************************************************************)
(* What main relies on when it runs the lobby server and the discovery     *)
(* server: a server that was started serves until it is told to stop, its  *)
(* thread ends after that and at no other time, and it is not started      *)
(* again.  Only the end of the whole process may cut this short.           *)
(***************************************************************************)
VARIABLE state

States == {"off", "serving", "stopping", "over", "killed"}
TypeOK == state \in States

Init == state = "off"

Serve == state = "off" /\ state' = "serving"
TellToStop == state = "serving" /\ state' = "stopping"
End == state = "stopping" /\ state' = "over"
Kill == state' = "killed"

Next == Serve \/ TellToStop \/ End \/ Kill

Spec == Init /\ [][Next]_state
=============================================================================
