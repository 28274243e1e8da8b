------------------------------ MODULE Mailbox ------------------------------
(***************************************************************************)
(* The WinPopup messages.  samba starts "smbc -m ... -i ..." for every     *)
(* message, which writes it into a new file of the message directory       *)
(* (RsaveMessage); every smbc that is running looks into the directory on  *)
(* SIGALRM, shows each message and removes its file (RtryReadMessage).     *)
(* The files are numbered, and a number is used again when it is free.     *)
(*                                                                         *)
(* A message is its writer; of its text only how much of it is written     *)
(* matters.                                                                *)
(***************************************************************************)
EXTENDS Integers, FiniteSets

CONSTANTS
  Writers,      \* the messages that are sent
  Readers,      \* the smbc that are running
  TextParts,    \* the parts in which the text of a message is written
  MaxFile       \* bound: the highest number of a file

VARIABLES
  dir,          \* RMESSAGEDIR: number -> the message in that file
  letter,       \* each message: how far it is written, and its file
  reader,       \* each smbc: where it is in RtryReadMessage
  mailShown,    \* history: how much of each message was shown
  mailRead,     \* history: the messages of which a reader did not get all that
                \* is written, now or later
  robbed,       \* history: who works on a name that another smbc removed
  blind         \* history: the messages that were removed by such a one, or by
                \* one who could not open them

mailVars == <<dir, letter, reader, mailShown, mailRead, robbed, blind>>

NoMessage == "none"
Numbers == 0..MaxFile

ASSUME MailConstants == MaxFile \in Nat /\ TextParts \in Nat \ {0} /\ NoMessage \notin Writers

AtRestReader == [pc |-> "idle", todo |-> {}, found |-> FALSE, number |-> 0,
                 message |-> NoMessage]

MailInit ==
  /\ dir = [n \in Numbers |-> NoMessage]
  /\ letter = [w \in Writers |-> [pc |-> "sent", number |-> 0, written |-> 0]]
  /\ reader = [r \in Readers |-> AtRestReader]
  /\ mailShown = [w \in Writers |-> 0]
  /\ mailRead = {} /\ robbed = {} /\ blind = {}

----------------------------------------------------------------------------
(* RsaveMessage: the first number whose file can be made.                  *)

(* Slip (not what the code does, used nowhere): without O_EXCL.            *)
CreateOver(w) ==
  /\ letter[w].pc = "sent"
  /\ dir' = [dir EXCEPT ![letter[w].number] = w]
  /\ letter' = [letter EXCEPT ![w].pc = "write"]
  /\ UNCHANGED <<reader, mailShown, mailRead, robbed, blind>>

CreateMessage(w) ==
  /\ letter[w].pc = "sent"
  /\ LET n == letter[w].number
     IN  IF dir[n] = NoMessage
         THEN /\ dir' = [dir EXCEPT ![n] = w]
              /\ letter' = [letter EXCEPT ![w].pc = "write"]
         ELSE /\ n < MaxFile
              /\ letter' = [letter EXCEPT ![w].number = n + 1]
              /\ UNCHANGED dir
  /\ UNCHANGED <<reader, mailShown, mailRead, robbed, blind>>

(* A write that fails is not noticed: the file may be closed at any point. *)
WriteMessage(w) ==
  /\ letter[w].pc = "write"
  /\ \/ letter' = [letter EXCEPT ![w].pc = "closed"]
     \/ /\ letter[w].written < TextParts
        /\ letter' = [letter EXCEPT ![w].written = @ + 1]
  /\ UNCHANGED <<dir, reader, mailShown, mailRead, robbed, blind>>

----------------------------------------------------------------------------
(* RtryReadMessage.  The names of the directory are read when it is        *)
(* opened; what comes later is found in the next turn, which follows       *)
(* while there was anything.                                               *)
Used == {n \in Numbers : dir[n] # NoMessage}
Stays == UNCHANGED <<dir, letter, mailShown, mailRead, robbed, blind>>

ScanMessages(r) ==
  /\ reader[r].pc = "idle" \/ (reader[r].pc = "scan" /\ reader[r].todo = {})
  /\ IF reader[r].pc = "idle" \/ reader[r].found
     THEN /\ reader' = [reader EXCEPT ![r] =
                 [AtRestReader EXCEPT !.pc = "scan", !.todo = Used]]
          /\ robbed' = robbed \ {r}
     ELSE /\ reader' = [reader EXCEPT ![r] = AtRestReader]
          /\ UNCHANGED robbed
  /\ UNCHANGED <<dir, letter, mailShown, mailRead, blind>>

(* The next name.  If the file cannot be opened, because it is gone or for *)
(* another reason, its name is removed all the same, without a message.    *)
OpenMessage(r) ==
  /\ reader[r].pc = "scan"
  /\ \E n \in reader[r].todo : \E m \in {dir[n], NoMessage} :
       reader' = [reader EXCEPT ![r] =
         [pc |-> IF m = NoMessage THEN "unlink" ELSE "read",
          todo |-> @.todo \ {n}, found |-> TRUE, number |-> n, message |-> m]]
  /\ Stays

(* It is read to what is its end now, or to an error, and shown until      *)
(* Enter is pressed.                                                       *)
(* The text is built in memory that is already free (RstrdupN(Rl, Rll)     *)
(* when both are the same): a message of more than one letter is shown     *)
(* with any text, or ends the program, which is started again.             *)
ShowMessage(r) ==
  /\ reader[r].pc = "read"
  /\ LET m == reader[r].message
     IN  \E k \in 0..letter[m].written :
           /\ mailShown' = [mailShown EXCEPT ![m] = IF k > @ THEN k ELSE @]
           /\ mailRead' = IF letter[m].pc = "closed" /\ k = letter[m].written
                          THEN mailRead ELSE mailRead \cup {m}
  /\ reader' = [reader EXCEPT ![r].pc = "unlink"]
  /\ UNCHANGED <<dir, letter, robbed, blind>>

CrashOnMessage(r) ==
  /\ reader[r].pc = "read"
  /\ letter[reader[r].message].written > 0
  /\ reader' = [reader EXCEPT ![r] = AtRestReader]
  /\ Stays

(* The name is removed, whatever is behind it by now; others who have read *)
(* it in the directory do not know.                                        *)
WorksOn(r, n) ==
  \/ reader[r].pc = "scan" /\ n \in reader[r].todo
  \/ reader[r].pc \in {"read", "unlink"} /\ n \in reader[r].todo \cup {reader[r].number}

NextName(r) ==
  reader' = [reader EXCEPT ![r] =
    [pc |-> "scan", todo |-> reader[r].todo, found |-> TRUE, number |-> 0,
     message |-> NoMessage]]

UnlinkMessage(r) ==
  /\ reader[r].pc = "unlink"
  /\ LET n == reader[r].number
     IN  /\ dir' = [dir EXCEPT ![n] = NoMessage]
         /\ blind' = IF r \in robbed \/ reader[r].message = NoMessage
                     THEN blind \cup ({dir[n]} \ {NoMessage}) ELSE blind
         /\ robbed' = robbed \cup {o \in Readers \ {r} : WorksOn(o, n)}
  /\ NextName(r)
  /\ UNCHANGED <<letter, mailShown, mailRead>>

(* ... or cannot be removed, and is found again in the next turn.          *)
UnlinkFails(r) ==
  /\ reader[r].pc = "unlink"
  /\ NextName(r)
  /\ Stays

MailNext ==
  \/ \E w \in Writers : CreateMessage(w) \/ WriteMessage(w)
  \/ \E r \in Readers :
       \/ ScanMessages(r) \/ OpenMessage(r) \/ ShowMessage(r)
       \/ CrashOnMessage(r) \/ UnlinkMessage(r) \/ UnlinkFails(r)

----------------------------------------------------------------------------
MailTypeOK ==
  /\ dir \in [Numbers -> Writers \cup {NoMessage}]
  /\ letter \in [Writers -> [pc: {"sent", "write", "closed"}, number: Numbers,
                             written: 0..TextParts]]
  /\ reader \in [Readers -> [pc: {"idle", "scan", "read", "unlink"},
                             todo: SUBSET Numbers, found: BOOLEAN,
                             number: Numbers, message: Writers \cup {NoMessage}]]
  /\ mailShown \in [Writers -> 0..TextParts]
  /\ mailRead \subseteq Writers /\ blind \subseteq Writers
  /\ robbed \subseteq Readers

(* No message gets lost: of one that has a file no more all that its       *)
(* writer wrote was shown, also if the program crashed on it before, or    *)
(* its name could not be removed, unless it was read while it was written  *)
(* or not to its end, or it was removed by an smbc that could not open it, *)
(* or that worked on a name which another smbc had removed and a writer    *)
(* used again.                                                             *)
MailShown ==
  \A w \in Writers :
    (letter[w].pc # "sent" /\ \A n \in Numbers : dir[n] # w) =>
      \/ letter[w].pc = "closed" /\ mailShown[w] = letter[w].written
      \/ w \in mailRead \cup blind
============================================================================
