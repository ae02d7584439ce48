----------------------------- MODULE AlarmHistory -----------------------------
(***************************************************************************)
(* What an alarm log promises.  Records are numbered in the order in which *)
(* they are accepted.  A record waits or is written at once, once and      *)
(* behind those that were accepted before it; the log keeps the newest     *)
(* records.  Only a write that failed, and was reported, may disturb the   *)
(* log, and only a writer that ends before its position is saved may lose  *)
(* which record of a ring is the oldest.                                   *)
(***************************************************************************)
EXTENDS Naturals, Sequences

CONSTANTS
  Limits,   \* numbers of records a writer may keep, 0 keeps all
  Torn      \* a failing write may leave a part of its bytes

VARIABLES
  log,      \* the numbers of the records a reader finds, oldest first
  queue,    \* accepted records that are not written yet
  last,     \* the number of the newest accepted record
  failed,   \* the records that the last write or acceptance has lost
  saved,    \* the end of the writer leaves the log as it is
  turned,   \* the file holds the records in another order than the log
  recovered \* what a ring keeps that was recovered for a record that was refused

vars == <<log, queue, last, failed, saved, turned, recovered>>

Init ==
  /\ log = <<>> /\ queue = <<>> /\ last = 0 /\ failed = {}
  /\ saved = TRUE /\ turned = FALSE /\ recovered = 0

Newest(s, n) == IF n = 0 \/ Len(s) <= n THEN s ELSE SubSeq(s, Len(s) - n + 1, Len(s))

Range(s) == {s[i] : i \in 1..Len(s)}

(* The same records from another one on.                                   *)
Rotations(s) ==
  {s} \cup {SubSeq(s, k + 1, Len(s)) \o SubSeq(s, 1, k) : k \in 1..Len(s)}

-----------------------------------------------------------------------------
(* A writer with a limit puts a record behind the newest ones.             *)
Ring(id, n) ==
  /\ n > 0
  /\ log' = Newest(Append(log, id), n)
  /\ saved' = FALSE
  /\ turned' \in BOOLEAN

(* A writer without a limit appends to the file.  A ring that it continues *)
(* stays in the order of the file, and what follows a torn line shares it. *)
(* A ring that was recovered for a record with a limit is written first.   *)
Continue(id) ==
  /\ 0 \in Limits
  /\ \/ ~turned /\ log' = Append(log, id) /\ ~turned'
     \/ /\ turned
        /\ Len(log') = Len(log) + 1 /\ Range(log') = Range(log) \cup {id}
        /\ turned' \in BOOLEAN
     \/ /\ Torn /\ log # <<>> /\ log[Len(log)] = 0
        /\ UNCHANGED <<log, turned>>
     \/ /\ recovered # 0
        /\ log' = Append(Newest(log, recovered), id) /\ ~turned'
  /\ saved' = TRUE

Place(id) ==
  /\ Continue(id) \/ \E n \in Limits : Ring(id, n)
  /\ failed' = {}

(* The writer's knowledge of the ring is lost.                             *)
Forget ==
  /\ log' \in IF saved THEN {log} ELSE Rotations(log)
  /\ saved' = TRUE
  /\ turned' \in IF saved THEN {turned} ELSE BOOLEAN

(* A torn write invents nothing, but records may be lost, and the text of  *)
(* some may run together (0) and come apart again.                         *)
Disturb(id) ==
  /\ Torn
  /\ Range(log') \subseteq
       {id} \cup (IF 0 \in Range(log) THEN 0..last' ELSE Range(log) \cup {0})
  /\ saved' = TRUE
  /\ turned' \in BOOLEAN

(* The write of a record fails.                                            *)
Fail(id) ==
  /\ failed' = {id}
  /\ Forget \/ Disturb(id)

-----------------------------------------------------------------------------
(* A record is accepted while others wait or the log is being read.        *)
Wait ==
  /\ last' = last + 1
  /\ queue' = Append(queue, last')
  /\ failed' = {}
  /\ UNCHANGED <<log, saved, turned>>

(* A record can neither be written nor wait.                               *)
Refuse ==
  /\ last' = last + 1
  /\ failed' = {last'}
  /\ UNCHANGED <<log, queue, saved, turned>>

(* A record is accepted and written.                                       *)
Write ==
  /\ queue = <<>>
  /\ last' = last + 1
  /\ Place(last') \/ Fail(last')
  /\ UNCHANGED queue

(* The record that waited longest is written.                              *)
WriteWaiting ==
  /\ queue # <<>>
  /\ Place(Head(queue)) \/ Fail(Head(queue))
  /\ queue' = Tail(queue)
  /\ UNCHANGED last

Save == saved' = TRUE /\ UNCHANGED <<log, queue, last, failed, turned>>

(* The writer closes and cannot write the records that wait.               *)
GiveUp ==
  /\ failed' = Range(queue) /\ queue' = <<>>
  /\ UNCHANGED <<log, last, saved, turned>>

(* The writer ends; after a crash the records that wait are lost.          *)
Stop ==
  /\ queue' = <<>>
  /\ Forget
  /\ UNCHANGED <<last, failed>>

(* A runtime that neither shares nor dates its log empties it.             *)
Clear ==
  /\ log' = <<>> /\ queue' = <<>>
  /\ saved' = TRUE /\ turned' = FALSE
  /\ UNCHANGED <<last, failed>>

(* The ring has been read, or is forgotten.                                *)
Recover == UNCHANGED <<log, queue, last, failed, saved, turned>>

Next ==
  /\ recovered' \in {0} \cup Limits
  /\ \/ Wait \/ Refuse \/ Write \/ WriteWaiting \/ Save
     \/ GiveUp \/ Stop \/ Clear \/ Recover

Spec == Init /\ [][Next]_vars
=============================================================================
