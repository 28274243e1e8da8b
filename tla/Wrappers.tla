------------------------------ MODULE Wrappers ------------------------------
(***************************************************************************)
(* The wrappers of libsmbclient (smb-pack.c): the library writes to the    *)
(* descriptors 1 and 2 when it likes, so each call is made with both of    *)
(* them on /dev/null (RmsgOff) and puts them back after it (RmsgOn).  The  *)
(* table of descriptors has an end, and the result of dup is not looked    *)
(* at.                                                                     *)
(***************************************************************************)
EXTENDS Naturals

CONSTANT MaxSpare   \* bound: descriptors that are free at the start

ASSUME WrapperConstants == MaxSpare \in Nat

VARIABLES
  spare,    \* descriptors that are free now
  std,      \* where the descriptors 1 ("out") and 2 ("err") point
  call,     \* the point a call has reached, "none" between the calls
  saved,    \* RfdOut and RfdErr
  handles,  \* connections and files that the library holds open
  room,     \* history: what was free at the start
  over      \* has the process ended itself?

wrapperVars == <<spare, std, call, saved, handles, room, over>>

Std == {"out", "err"}
Failed == "failed"
Goes(from, to) == call = from /\ call' = to /\ ~over /\ UNCHANGED room

----------------------------------------------------------------------------
(* dup: what the descriptor points to, or -1 if the table is full.         *)
Dup(d) ==
  IF spare = 0 THEN saved' = [saved EXCEPT ![d] = Failed] /\ UNCHANGED spare
  ELSE saved' = [saved EXCEPT ![d] = std[d]] /\ spare' = spare - 1

(* dup2 and close do nothing with -1.                                      *)
Restored(d) ==
  std' = [std EXCEPT ![d] = IF saved[d] = Failed THEN @ ELSE saved[d]]
CloseSaved(d) ==
  /\ spare' = IF saved[d] = Failed THEN spare ELSE spare + 1
  /\ saved' = [saved EXCEPT ![d] = Failed]

Off1 == Goes("none", "dup1") /\ Dup("err") /\ UNCHANGED <<std, handles, over>>
Off2 == Goes("dup1", "dup2") /\ Dup("out") /\ UNCHANGED <<std, handles, over>>

(* Slip (not what the code does, used nowhere): a failure is not looked  *)
(* at.                                                                     *)
OpenNullAnyway ==
  /\ Goes("dup2", "null")
  /\ spare' = IF spare = 0 THEN 0 ELSE spare - 1
  /\ UNCHANGED <<std, saved, handles, over>>

(* open of /dev/null; if it fails the signal to the group ends smbc before *)
(* kill returns.                                                           *)
OpenNull ==
  /\ Goes("dup2", "null")
  /\ IF spare = 0 THEN over' = TRUE /\ UNCHANGED spare
     ELSE spare' = spare - 1 /\ UNCHANGED over
  /\ UNCHANGED <<std, saved, handles>>

Silence(d, from, to) ==
  /\ Goes(from, to) /\ std' = [std EXCEPT ![d] = "null"]
  /\ UNCHANGED <<spare, saved, handles, over>>
Off3 == Silence("err", "null", "nulled")
Off4 == Silence("out", "nulled", "call")

RmsgOff == Off1 \/ Off2 \/ OpenNull \/ Off3 \/ Off4

(* The call itself.  An open or a new connection may take a descriptor,   *)
(* a close gives it back, and the other calls leave them alone.            *)
LibraryCall == Goes("call", "done") /\ UNCHANGED <<std, saved, over>>
OpenHandle ==
  LibraryCall /\ spare > 0 /\ spare' = spare - 1 /\ handles' = handles + 1
CloseHandle ==
  LibraryCall /\ handles > 0 /\ spare' = spare + 1 /\ handles' = handles - 1
OtherCall == LibraryCall /\ UNCHANGED <<spare, handles>>

RestoreStd(d, from, to) ==
  Goes(from, to) /\ Restored(d) /\ UNCHANGED <<spare, saved, handles, over>>
CloseCopy(d, from, to) ==
  Goes(from, to) /\ CloseSaved(d) /\ UNCHANGED <<std, handles, over>>
On1 == RestoreStd("err", "done", "err") \/ CloseCopy("err", "err", "err closed")
On2 == RestoreStd("out", "err closed", "out") \/ CloseCopy("out", "out", "out closed")

CloseNull ==
  /\ Goes("out closed", "none") /\ spare' = spare + 1
  /\ UNCHANGED <<std, saved, handles, over>>

RmsgOn == On1 \/ On2 \/ CloseNull

WrapperInit ==
  /\ spare \in 0..MaxSpare /\ room = spare
  /\ std = [d \in Std |-> "terminal"] /\ saved = [d \in Std |-> Failed]
  /\ call = "none" /\ handles = 0 /\ over = FALSE

WrapperNext == RmsgOff \/ OpenHandle \/ CloseHandle \/ OtherCall \/ RmsgOn

----------------------------------------------------------------------------
WrapperTypeOK ==
  /\ spare \in 0..MaxSpare /\ handles \in 0..MaxSpare /\ room \in 0..MaxSpare
  /\ std \in [Std -> {"terminal", "null"}]
  /\ saved \in [Std -> {"terminal", "null", Failed}]
  /\ over \in BOOLEAN

(* Between two calls the output of smbc is on the terminal again, and no   *)
(* descriptor is lost, also when the table of descriptors was full on the  *)
(* way.                                                                    *)
OutputIsBack ==
  (call = "none" /\ ~over) =>
    /\ std = [d \in Std |-> "terminal"] /\ saved = [d \in Std |-> Failed]
    /\ spare + handles = room
============================================================================
