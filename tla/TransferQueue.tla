--------------------------- MODULE TransferQueue ----------------------------
(***************************************************************************)
(* What the transfer engine promises, without handles, marks, delays and   *)
(* dialogs: files wait in a queue, one of them is transferred at a time,   *)
(* only the one being transferred receives data, and a file is finished    *)
(* only when it holds as much as its source. A transfer may be interrupted *)
(* at any point, a file may be taken from the queue, and an interrupted    *)
(* destination may be started again from nothing.                          *)
(***************************************************************************)
EXTENDS Integers, Sequences, SequencesExt

CONSTANTS
  Item,   \* the files
  None,   \* no transfer
  Size,   \* the length of a file
  Most    \* bound on the length a destination has before any transfer

VARIABLES
  queue,     \* the files that wait or are transferred, in their order
  current,   \* the file being transferred
  stored,    \* the length of a file's destination
  finished   \* the files that were transferred

tqvars == <<queue, current, stored, finished>>

Init == /\ queue = <<>> /\ current = None /\ finished = {}
        /\ stored \in [Item -> 0..Most]

Queued(i) == i \in Range(queue)

(* The destination of the current file may have grown, not past the source. *)
Grows == \E n \in 1..Size[current] : /\ n > stored[current]
                                      /\ stored' = [stored EXCEPT ![current] = n]

Enqueue(i) == /\ ~Queued(i) /\ queue' = Append(queue, i)
              /\ finished' = finished \ {i} /\ UNCHANGED <<current, stored>>

Swap(k) == /\ queue' = [queue EXCEPT ![k] = queue[k + 1], ![k + 1] = queue[k]]
           /\ UNCHANGED <<current, stored, finished>>

Begin(i) == /\ current = None /\ Queued(i) /\ current' = i
            /\ UNCHANGED <<queue, stored, finished>>

Receive == current # None /\ Grows /\ UNCHANGED <<queue, current, finished>>

Interrupt == /\ current # None /\ current' = None
             /\ UNCHANGED stored \/ Grows \/ stored' = [stored EXCEPT ![current] = 0]
             /\ UNCHANGED <<queue, finished>>

Complete(k) == /\ current # None /\ queue[k] = current /\ current' = None
               /\ stored[current] >= Size[current]
               /\ queue' = RemoveAt(queue, k) /\ finished' = finished \cup {current}
               /\ UNCHANGED stored

Leave(k) == /\ queue' = RemoveAt(queue, k)
            /\ current' = IF queue[k] = current THEN None ELSE current
            /\ UNCHANGED stored \/ (queue[k] = current /\ Grows)
            /\ UNCHANGED finished

Halt == current' = None /\ queue' \in {queue, <<>>} /\ UNCHANGED <<stored, finished>>

Next == \/ \E i \in Item : Enqueue(i) \/ Begin(i)
        \/ \E k \in 1..Len(queue) : \/ k < Len(queue) /\ Swap(k)
                                    \/ Complete(k) \/ Leave(k)
        \/ Receive \/ Interrupt \/ Halt

Spec == Init /\ [][Next]_tqvars
=============================================================================
