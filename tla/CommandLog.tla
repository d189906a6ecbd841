----------------------------- MODULE CommandLog -----------------------------
(***************************************************************************)
(* What every component of the back end shares: the timestamp of the       *)
(* command being run, the rollback log and the command in progress         *)
(* (main.cpp, rollback.cpp).  Commands run one at a time, to the end.  A   *)
(* command whose handler is a loop is split here into one step per         *)
(* iteration, and `call' says which loop is running: no other command      *)
(* starts before it is back to NoCall.                                     *)
(***************************************************************************)
EXTENDS Integers, Sequences

CONSTANT MaxTime    \* bound: the largest timestamp of a command

ASSUME MaxTimeAssumption == MaxTime \in Nat

VARIABLES
  now,     \* currentTime
  log,     \* the rollback log, oldest entry first: [timestamp, content]
  call     \* the handler loop in progress

NoCall == [cmd |-> "none"]

Idle == call = NoCall

(* main() reads the timestamp of a command before the command itself.  The *)
(* input is in chronological order.                                        *)
ReadTimestamp(t) ==
  /\ Idle
  /\ t >= now
  /\ now' = t
  /\ UNCHANGED <<log, call>>

(* rollback::log: an entry is stamped with the current time.               *)
Log(content) == log' = Append(log, [timestamp |-> now, content |-> content])

Newest == log[Len(log)]

(* command::run(Rollback), up to its loop.                                 *)
StartRollback(t) ==
  /\ Idle
  /\ t <= now
  /\ call' = [cmd |-> "rollback", timestamp |-> t]
  /\ UNCHANGED <<now, log>>

RollingBack == call.cmd = "rollback"

(* Mistake: undoes the entries of the target time, too.                    *)
HasEntryToUndoInclusive ==
  /\ RollingBack
  /\ log # <<>>
  /\ Newest.timestamp >= call.timestamp

(* The condition under which the loop of Rollback undoes one more entry.   *)
HasEntryToUndo ==
  /\ RollingBack
  /\ log # <<>>
  /\ Newest.timestamp > call.timestamp

(* entry.destroy() and --lastId: the newest entry leaves the log.          *)
DestroyEntry == log' = SubSeq(log, 1, Len(log) - 1)

RollbackDone ==
  /\ RollingBack
  /\ ~ HasEntryToUndo
  /\ call' = NoCall
  /\ UNCHANGED <<now, log>>

=============================================================================
