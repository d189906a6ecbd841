------------------------------ MODULE LogFile ------------------------------
(***************************************************************************)
(* The rollback log in its file (rollback.cpp over file.h).  The entries   *)
(* are chunks; the id of the last one is kept in the metadata of the file. *)
(* Rollback walks from there by counting down, so it takes for granted     *)
(* that the ids of the entries follow each other, though they come from    *)
(* the free list of the file.                                              *)
(***************************************************************************)
EXTENDS Chunks, Sequences

CONSTANTS
  Contents,
  MaxTime,      \* bound: the largest timestamp
  MaxChunks     \* bound: the number of chunks

ASSUME NoEntry == NoMeta = -1    \* LastEntry::id

VARIABLES
  now,      \* currentTime
  file,     \* LogEntry::file
  call      \* the rollback in progress, with its lastId

vars == <<now, file, call>>

NoCall == [cmd |-> "none"]
Idle == call = NoCall

Init ==
  /\ now = 0
  /\ file = EmptyFile
  /\ call = NoCall

ReadTimestamp(t) ==
  /\ Idle
  /\ t >= now
  /\ now' = t
  /\ UNCHANGED <<file, call>>

(* Mistake: the id of the last entry is not kept.                          *)
LogWithoutMeta(content) ==
  /\ Idle
  /\ PushId(file) < MaxChunks
  /\ file' = AfterPush(file, [timestamp |-> now, content |-> content])
  /\ UNCHANGED <<now, call>>

(* rollback::log.                                                          *)
Log(content) ==
  /\ Idle
  /\ PushId(file) < MaxChunks
  /\ file' = AfterSetMeta(AfterPush(file, [timestamp |-> now, content |-> content]),
                          PushId(file))
  /\ UNCHANGED <<now, call>>

StartRollback(t) ==
  /\ Idle
  /\ t <= now
  /\ call' = [cmd |-> "rollback", timestamp |-> t, lastId |-> GetMeta(file)]
  /\ UNCHANGED <<now, file>>

RollingBack == call.cmd = "rollback"

HasEntryToUndo ==
  /\ RollingBack
  /\ call.lastId >= 0
  /\ file.chunks[call.lastId].timestamp > call.timestamp

(* An iteration of the loop of Rollback.                                   *)
UndoEntry ==
  /\ HasEntryToUndo
  /\ call' = [call EXCEPT !.lastId = @ - 1]
  /\ file' = AfterRemove(file, call.lastId)
  /\ UNCHANGED now

(* Mistake: the metadata is left to the file.                              *)
RollbackDoneWithoutMeta ==
  /\ RollingBack
  /\ ~ HasEntryToUndo
  /\ call' = NoCall
  /\ UNCHANGED <<now, file>>

RollbackDone ==
  /\ RollingBack
  /\ ~ HasEntryToUndo
  /\ file' = AfterSetMeta(file, call.lastId)
  /\ call' = NoCall
  /\ UNCHANGED now

Clean ==
  /\ Idle
  /\ file' = AfterTruncate(file)
  /\ UNCHANGED <<now, call>>

Next ==
  \/ \E t \in 0 .. MaxTime : ReadTimestamp(t) \/ StartRollback(t)
  \/ \E content \in Contents : Log(content)
  \/ UndoEntry
  \/ RollbackDone
  \/ Clean

Spec == Init /\ [][Next]_vars

-----------------------------------------------------------------------------
(* Properties                                                              *)

LastId == IF RollingBack THEN call.lastId ELSE GetMeta(file)

(* The entries have the ids 0 to LastId, and the next one will follow:     *)
(* the free list gives the ids of undone entries out again in ascending    *)
(* order, because Rollback frees them in descending order.                 *)
IdsFollowEachOther ==
  /\ \A id \in 0 .. LastId : "timestamp" \in DOMAIN file.chunks[id]
  /\ PushId(file) = LastId + 1

(* The chunks from 0 to LastId are the log of CommandLog: rollback.cpp     *)
(* with its file behaves as the sequence the other components are modelled *)
(* with.                                                                   *)
Sequence ==
  INSTANCE RollbackLog WITH
    log <- [k \in 1 .. LastId + 1 |-> file.chunks[k - 1]],
    call <- IF Idle THEN NoCall ELSE [cmd |-> "rollback", timestamp |-> call.timestamp]

ImplementsSequence == Sequence!Spec

=============================================================================
