----------------------------- MODULE RollbackLog -----------------------------
(***************************************************************************)
(* The rollback log as CommandLog has it, on its own: a sequence to which  *)
(* commands append, and from whose end a rollback takes entries.           *)
(***************************************************************************)
EXTENDS CommandLog

CONSTANT Contents

Init == now = 0 /\ log = <<>> /\ call = NoCall

Append1(content) == Idle /\ Log(content) /\ UNCHANGED <<now, call>>

Undo == HasEntryToUndo /\ DestroyEntry /\ UNCHANGED <<now, call>>

Clean == Idle /\ log' = <<>> /\ UNCHANGED <<now, call>>

Next ==
  \/ \E t \in 0 .. MaxTime : ReadTimestamp(t) \/ StartRollback(t)
  \/ \E content \in Contents : Append1(content)
  \/ Undo
  \/ RollbackDone
  \/ Clean

Spec == Init /\ [][Next]_<<now, log, call>>

=============================================================================
