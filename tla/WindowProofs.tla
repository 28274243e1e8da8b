---------------------------- MODULE WindowProofs ----------------------------
(* Proofs about the windows that keep state of their own: Dialogs, for any *)
(* number of windows above each other, LineEditor, Bookmarks and Mailbox,  *)
(* for any texts, bookmarks, writers and readers, FindWindow, for any      *)
(* network, NewIndex, for any hosts, and Viewer, for any file and window.  *)
EXTENDS Dialogs, LineEditor, Bookmarks, Mailbox, FindWindow, NewIndex, Viewer,
        DataInduction

(* Dialogs: what the windows above each other share.                       *)

Kinds   == Messages \cup Forms \cup Windows
Askings == {"choose", "zero"}
Frames  == [kind : Kinds, for : Kinds, choice : 0..5, pressed : SUBSET Askings,
            shaded : BOOLEAN, busy : BOOLEAN]

(* A question about a delete stays one, or one of the two it goes on as,   *)
(* and has "cancel" chosen until something else is pressed.                *)
FrameHolds(f) ==
  /\ f.kind \in {"delete", "quit", "copy"} => f.choice \in 0..1
  /\ f.for = "delete" => /\ f.kind \in {"delete", "quit", "info"}
                         /\ f.choice = 0 \/ f.pressed # {}

(* Over another window come the dialogs of the engine, the mail, and the   *)
(* notices of two windows.                                                 *)
OverHolds(i) ==
  /\ stack[i].kind \in Engines \cup {"mail", "notice"}
  /\ stack[i].kind = "notice" => i = 2 /\ stack[1].kind \in Windows

(* The flag is up for the dialog on top, and the alarm is off for a window *)
(* that switched it off, unless something was shown over it.               *)
TopHolds ==
  /\ Top.kind \in Messages => dontResize \/ Top.shaded
  /\ Top.kind \in Silent => ~alarm \/ Top.shaded \/ Top.busy

(* RactiveWindow is a window that set it, or none of those that are open   *)
(* but the two with a notice set it.                                       *)
ActiveHolds ==
  /\ active > 0 => active <= Depth /\ stack[active].kind \in Setting \cup {"info"}
  /\ active = Deleted =>
       \A i \in 1..Depth : stack[i].kind \in Setting => stack[i].kind \in Windows

StackInv ==
  /\ stack \in Seq(Frames)
  /\ active \in Deleted..MaxDepth
  /\ dontResize \in BOOLEAN /\ doResize \in BOOLEAN /\ alarm \in BOOLEAN
  /\ transfers \in BOOLEAN /\ loop \in {"key", "after", "ended"}
  /\ \A i \in 1..Depth : FrameHolds(stack[i])
  /\ \A i \in 2..Depth : OverHolds(i)
  /\ stack # <<>> => TopHolds
  /\ ActiveHolds

DialogInv == StackInv /\ DialogsHold

LEMMA InitDialog == DialogInit => DialogInv
  <1> SUFFICES ASSUME DialogInit PROVE DialogInv
    OBVIOUS
  <1>1. stack \in Seq(Frames) /\ Depth = 0 /\ 1..Depth = {} /\ 2..Depth = {}
    BY DEF DialogInit, Depth
  <1>2. ActiveHolds /\ active \in Deleted..MaxDepth
    BY <1>1, DialogAssumption DEF DialogInit, ActiveHolds, Main, Deleted
  <1>3. event.what = "nothing"
    BY DEF DialogInit, Nothing
  <1>4. DialogsHold
    BY <1>3 DEF DialogsHold, AskedBefore, NoResizeBelow, ActiveIsOpen
  <1> QED BY <1>1, <1>2, <1>4 DEF DialogInit, DialogInv, StackInv

(* The window on top, and what is below it.                                *)
LEMMA TopIs ==
  ASSUME StackInv, stack # <<>>
  PROVE  /\ Depth \in Nat /\ Depth > 0 /\ Top = stack[Depth] /\ Top \in Frames
         /\ FrameHolds(Top) /\ TopHolds
  BY DEF StackInv, Depth, Top, Last

LEMMA FrontIs ==
  ASSUME StackInv, stack # <<>>
  PROVE  /\ Front(stack) \in Seq(Frames) /\ Len(Front(stack)) = Depth - 1
         /\ \A i \in 1..Depth - 1 : Front(stack)[i] = stack[i]
  <1>1. stack \in Seq(Frames) /\ Len(stack) > 0 /\ Len(stack) \in Nat
    BY TopIs DEF StackInv, Depth
  <1>2. \A i \in 1..Len(stack) - 1 : stack[i] \in Frames
    BY <1>1
  <1>3. Front(stack) = SubSeq(stack, 1, Len(stack) - 1)
    BY DEF Front
  <1> DEFINE n == Len(stack) - 1
  <1>4. n \in Nat
    BY <1>1
  <1>5. /\ SubSeq(stack, 1, n) \in Seq(Frames)
        /\ Len(SubSeq(stack, 1, n)) = IF 1 <= n THEN n - 1 + 1 ELSE 0
        /\ \A i \in 1..n - 1 + 1 : SubSeq(stack, 1, n)[i] = stack[1 + i - 1]
    <2> HIDE DEF n
    <2> QED BY <1>2, <1>4, SubSeqProperties DEF n
  <1> HIDE DEF n
  <1>6. Len(SubSeq(stack, 1, n)) = n
    BY <1>4, <1>5
  <1>7. \A i \in 1..n : SubSeq(stack, 1, n)[i] = stack[i]
    BY <1>4, <1>5
  <1> QED BY <1>3, <1>5, <1>6, <1>7 DEF Depth, n

LEMMA FrameIs ==
  ASSUME NEW kind \in Kinds, NEW for \in Kinds
  PROVE  /\ Frame(kind, for) \in Frames
         /\ Frame(kind, for).kind = kind /\ Frame(kind, for).for = for
         /\ kind = for => FrameHolds(Frame(kind, for))
         /\ Frame(kind, for).shaded = FALSE /\ Frame(kind, for).busy = FALSE
  <1>1. FirstChoice(kind) \in 0..5 /\ (kind \in {"delete", "quit", "copy"} => FirstChoice(kind) \in 0..1)
        /\ (kind = "delete" => FirstChoice(kind) = 0)
    BY DEF FirstChoice
  <1> QED BY <1>1 DEF Frame, Frames, FrameHolds

(* A window opens over another one, or over the panels.                    *)
LEMMA PushStep ==
  ASSUME StackInv, NEW kind \in Engines \cup {"mail", "notice"}, Push(kind, kind),
         kind = "notice" => Depth = 1 /\ stack[1].kind \in Windows,
         UNCHANGED <<doResize, transfers, loop>>
  PROVE  StackInv'
  <1> DEFINE f == Frame(kind, kind)
  <1>1. kind \in Kinds /\ kind \in Messages /\ kind \notin Silent
    BY DEF Kinds, Messages, Engines, Questions, Infos, Silent
  <1>2. f \in Frames /\ f.kind = kind /\ FrameHolds(f)
    BY <1>1, FrameIs
  <1> HIDE DEF f
  <1>3. /\ stack' = Append(stack, f) /\ stack \in Seq(Frames) /\ Depth \in Nat /\ Depth < MaxDepth
    BY DEF Push, StackInv, f, Depth
  <1>4. /\ stack' \in Seq(Frames) /\ Depth' = Depth + 1 /\ stack'[Depth + 1] = f
        /\ \A i \in 1..Depth : stack'[i] = stack[i]
    BY <1>2, <1>3 DEF Depth
  <1>5. Top' = f
    BY <1>4 DEF Top, Last, Depth
  <1>a. \A i \in 1..Depth' : i = Depth + 1 \/ i \in 1..Depth
    BY <1>3, <1>4
  <1>6. \A i \in 1..Depth' : FrameHolds(stack'[i])
    <2>1. \A i \in 1..Depth : FrameHolds(stack[i])
      BY DEF StackInv
    <2> QED BY <2>1, <1>2, <1>4, <1>a
  <1>7. ASSUME NEW i \in 2..Depth' PROVE OverHolds(i)'
    <2>1. CASE i = Depth + 1
      <3>1. 1 \in 1..Depth
        BY <2>1, <1>3
      <3> QED BY <2>1, <3>1, <1>2, <1>4, <1>3 DEF OverHolds
    <2>2. CASE i \in 2..Depth
      <3>1. 1 \in 1..Depth /\ i \in 1..Depth /\ OverHolds(i)
        BY <2>2, <1>3 DEF StackInv
      <3> QED BY <3>1, <1>4 DEF OverHolds
    <2> QED BY <1>a, <2>1, <2>2, <1>3
  <1>8. TopHolds'
    BY <1>1, <1>2, <1>5 DEF TopHolds, Push
  <1>9. ActiveHolds'
    <2>1. kind \in Setting => kind = "notice"
      BY DEF Setting, Trying, Engines, Forms, Windows
    <2>2. CASE kind \in Setting
      <3>1. active' = Depth + 1
        BY <2>2 DEF Push
      <3> QED BY <2>2, <3>1, <1>2, <1>3, <1>4 DEF ActiveHolds, Deleted
    <2>3. CASE kind \notin Setting
      <3>1. active' = active /\ active \in Deleted..MaxDepth /\ ActiveHolds
        BY <2>3 DEF Push, StackInv
      <3>2. active > 0 => active \in 1..Depth
        BY <3>1, <1>3, DialogAssumption DEF ActiveHolds, Deleted
      <3>3. active' > 0 => active' <= Depth' /\ stack'[active'].kind \in Setting \cup {"info"}
        <4> SUFFICES ASSUME active > 0
                     PROVE  active <= Depth' /\ stack'[active].kind \in Setting \cup {"info"}
          BY <3>1
        <4>1. active \in 1..Depth /\ stack[active].kind \in Setting \cup {"info"}
          BY <3>1, <3>2 DEF ActiveHolds
        <4>2. stack'[active] = stack[active]
          BY <4>1, <1>4
        <4>3. active <= Depth'
          BY <4>1, <1>3, <1>4
        <4> QED BY <4>1, <4>2, <4>3
      <3>4. ASSUME active' = Deleted, NEW i \in 1..Depth', stack'[i].kind \in Setting
            PROVE  stack'[i].kind \in Windows
        <4>1. i # Depth + 1
          BY <3>4, <2>3, <1>2, <1>4
        <4>2. i \in 1..Depth
          BY <4>1, <1>a
        <4> QED BY <4>2, <3>4, <3>1, <1>4 DEF ActiveHolds
      <3> QED BY <3>3, <3>4 DEF ActiveHolds
    <2> QED BY <2>2, <2>3
  <1>10. active' \in Deleted..MaxDepth /\ alarm' \in BOOLEAN /\ dontResize' \in BOOLEAN
    BY <1>3, DialogAssumption DEF Push, StackInv, Deleted
  <1> QED BY <1>4, <1>6, <1>7, <1>8, <1>9, <1>10 DEF StackInv

(* A key changes what is chosen in the window on top, or the engine works  *)
(* behind it.                                                              *)
LEMMA ReplaceTop ==
  ASSUME StackInv, stack # <<>>, NEW f \in Frames, FrameHolds(f), f.kind = Top.kind,
         f.shaded = Top.shaded,
         stack' = [stack EXCEPT ![Depth] = f],
         alarm' \in BOOLEAN, f.kind \in Silent => ~alarm' \/ f.shaded \/ f.busy,
         UNCHANGED <<active, dontResize, doResize, transfers, loop>>
  PROVE  StackInv'
  <1>1. Depth \in Nat /\ Depth > 0 /\ Top = stack[Depth] /\ TopHolds /\ stack \in Seq(Frames)
    BY TopIs DEF StackInv
  <1>2. /\ stack' \in Seq(Frames) /\ Depth' = Depth /\ stack'[Depth] = f
        /\ \A i \in 1..Depth : i # Depth => stack'[i] = stack[i]
    BY <1>1 DEF Depth
  <1>3. Top' = f
    BY <1>2 DEF Top, Last, Depth
  <1>4. \A i \in 1..Depth' : FrameHolds(stack'[i])
    BY <1>1, <1>2 DEF StackInv
  <1>5. \A i \in 1..Depth : stack'[i].kind = stack[i].kind
    BY <1>1, <1>2
  <1>6. \A i \in 2..Depth' : OverHolds(i)'
    BY <1>1, <1>2, <1>5 DEF StackInv, OverHolds
  <1>7. TopHolds'
    BY <1>1, <1>3 DEF TopHolds
  <1>8. ActiveHolds'
    BY <1>1, <1>2, <1>5 DEF ActiveHolds, StackInv, Deleted
  <1> QED BY <1>2, <1>4, <1>6, <1>7, <1>8 DEF StackInv

LEMMA ShadeIs ==
  ASSUME NEW f \in Frames, NEW a, NEW b
  PROVE  [[f EXCEPT !.shaded = a] EXCEPT !.busy = b]
           = [kind |-> f.kind, for |-> f.for, choice |-> f.choice, pressed |-> f.pressed,
              shaded |-> a, busy |-> b]
  <1> DEFINE g == [kind |-> f.kind, for |-> f.for, choice |-> f.choice,
                   pressed |-> f.pressed, shaded |-> a, busy |-> f.busy]
  <1>1. [f EXCEPT !.shaded = a] = g
    BY DEF Frames
  <1>2. [g EXCEPT !.busy = b]
          = [kind |-> f.kind, for |-> f.for, choice |-> f.choice, pressed |-> f.pressed,
             shaded |-> a, busy |-> b]
    OBVIOUS
  <1> HIDE DEF g
  <1> QED BY <1>1, <1>2

(* A window is closed; the one below it was covered.                       *)
LEMMA PopStep ==
  ASSUME StackInv, stack # <<>>, NEW yes \in BOOLEAN, Pop(yes),
         UNCHANGED <<doResize, transfers>>
  PROVE  StackInv'
  <1> DEFINE below == Front(stack)
             was   == stack[Depth - 1]
             g     == [kind |-> was.kind, for |-> was.for, choice |-> was.choice,
                       pressed |-> was.pressed, shaded |-> TRUE,
                       busy |-> was.busy \/ Top.kind \in Engines]
  <1>1. Depth \in Nat /\ Depth > 0 /\ Top = stack[Depth] /\ Top \in Frames
    BY TopIs
  <1>2. /\ below \in Seq(Frames) /\ Len(below) = Depth - 1
        /\ \A i \in 1..Depth - 1 : below[i] = stack[i]
    BY FrontIs
  <1>3. /\ active \in Deleted..MaxDepth /\ ActiveHolds
        /\ \A i \in 1..Depth : FrameHolds(stack[i])
        /\ \A i \in 2..Depth : OverHolds(i)
    BY DEF StackInv
  <1>4. /\ active' \in Deleted..MaxDepth /\ dontResize' \in BOOLEAN /\ alarm' \in BOOLEAN
        /\ loop' \in {"key", "after", "ended"} /\ doResize' \in BOOLEAN /\ transfers' \in BOOLEAN
    BY <1>3, DialogAssumption DEF Pop, StackInv, Deleted
  <1>5. active' = IF active = Depth THEN Deleted ELSE active
    BY DEF Pop
  <1> HIDE DEF below
  <1>6. CASE Depth = 1
    <2>1. below = <<>>
      BY <1>2, <1>6, EmptySeq
    <2>2. stack' = <<>>
      BY <2>1 DEF Pop, below
    <2>3. Depth' = 0 /\ 1..Depth' = {} /\ 2..Depth' = {} /\ stack' \in Seq(Frames)
      BY <2>2 DEF Depth
    <2>4. ActiveHolds'
      BY <2>3, <1>1, <1>3, <1>5, <1>6, DialogAssumption DEF ActiveHolds, Deleted
    <2> QED BY <2>2, <2>3, <2>4, <1>4 DEF StackInv
  <1>7. CASE Depth > 1
    <2>1. OverHolds(Depth) /\ Top.kind \in Messages
      BY <1>1, <1>3, <1>7 DEF OverHolds, Messages, Infos
    <2>2. was = below[Depth - 1] /\ was \in Frames /\ below # <<>> /\ Depth - 1 \in 1..Depth
      BY <1>1, <1>2, <1>7
    <2>3. g \in Frames /\ FrameHolds(g) /\ g.kind = was.kind /\ g.shaded
      <3>1. FrameHolds(was)
        BY <1>3, <2>2
      <3> QED BY <3>1, <2>2 DEF Frames, FrameHolds
    <2>4. stack' = [below EXCEPT ![Depth - 1] = g]
      <3>1. stack' = [below EXCEPT ![Depth - 1].shaded = TRUE,
                                   ![Depth - 1].busy = @ \/ Top.kind \in Engines]
        BY <2>1, <2>2 DEF Pop, below
      <3>2. [[was EXCEPT !.shaded = TRUE] EXCEPT !.busy = was.busy \/ Top.kind \in Engines] = g
        BY <2>2, ShadeIs
      <3> QED BY <3>1, <3>2, <2>2, <1>2
    <2> HIDE DEF g, was
    <2>5. /\ stack' \in Seq(Frames) /\ Depth' = Depth - 1 /\ stack'[Depth - 1] = g
          /\ \A i \in 1..Depth - 1 : i # Depth - 1 => stack'[i] = stack[i]
      BY <2>3, <2>4, <1>1, <1>2, <1>7 DEF Depth
    <2>6. \A i \in 1..Depth - 1 : stack'[i].kind = stack[i].kind
      BY <2>2, <2>3, <2>5, <1>2
    <2>7. ASSUME NEW i \in 1..Depth' PROVE FrameHolds(stack'[i])
      BY <1>1, <1>3, <2>3, <2>5
    <2>8. ASSUME NEW i \in 2..Depth' PROVE OverHolds(i)'
      <3>1. i \in 1..Depth - 1 /\ 1 \in 1..Depth - 1 /\ OverHolds(i)
        BY <1>1, <1>3, <2>5
      <3> QED BY <3>1, <2>6 DEF OverHolds
    <2>9. TopHolds'
      <3>1. Top' = g
        BY <2>5 DEF Top, Last, Depth
      <3> QED BY <3>1, <2>3 DEF TopHolds
    <2>10. ActiveHolds'
      <3>1. CASE active = Depth
        <4>1. stack[Depth].kind = "notice"
          BY <3>1, <1>1, <1>3, <2>1 DEF ActiveHolds, OverHolds, Setting, Trying, Engines, Forms, Windows
        <4>2. Depth = 2 /\ stack[1].kind \in Windows
          BY <4>1, <2>1 DEF OverHolds
        <4>3. \A i \in 1..Depth' : i = 1
          BY <4>2, <2>5
        <4> QED BY <4>2, <4>3, <2>6, <1>5, <3>1 DEF ActiveHolds, Deleted
      <3>2. CASE active # Depth
        <4>1. active' = active
          BY <3>2, <1>5
        <4>2. active > 0 => active \in 1..Depth - 1
          BY <3>2, <1>1, <1>3 DEF ActiveHolds, Deleted
        <4> QED BY <4>1, <4>2, <1>1, <1>3, <2>5, <2>6 DEF ActiveHolds
      <3> QED BY <3>1, <3>2
    <2> QED BY <1>4, <2>5, <2>7, <2>8, <2>9, <2>10 DEF StackInv
  <1> QED BY <1>1, <1>6, <1>7

(* A key of main opens a window over the panels.                           *)
LEMMA OpenFromMainStep ==
  ASSUME StackInv, NEW kind \in {"help", "info"} \cup Questions \cup Forms \cup Windows,
         OpenFromMain(kind)
  PROVE  StackInv'
  <1> DEFINE f == Frame(kind, kind)
  <1>1. kind \in Kinds
    BY DEF Kinds, Messages, Infos
  <1>2. f \in Frames /\ f.kind = kind /\ FrameHolds(f)
    BY <1>1, FrameIs
  <1> HIDE DEF f
  <1>3. stack' = <<f>>
    BY DEF OpenFromMain, f
  <1>4. stack' \in Seq(Frames) /\ Depth' = 1 /\ stack'[1] = f /\ Top' = f /\ stack' # <<>>
    BY <1>2, <1>3 DEF Depth, Top, Last
  <1>5. TopHolds'
    BY <1>2, <1>4 DEF TopHolds, OpenFromMain
  <1>6. ActiveHolds'
    BY <1>2, <1>4 DEF ActiveHolds, OpenFromMain, Deleted, Main
  <1>7. active' \in Deleted..MaxDepth /\ alarm' \in BOOLEAN /\ dontResize' \in BOOLEAN
        /\ doResize' \in BOOLEAN /\ transfers' \in BOOLEAN /\ loop' \in {"key", "after", "ended"}
    BY DialogAssumption DEF OpenFromMain, Deleted, Main, StackInv
  <1> QED BY <1>2, <1>4, <1>5, <1>6, <1>7 DEF StackInv

(* The key 0 makes another dialog of the one on top.                       *)
LEMMA FallThroughStep ==
  ASSUME StackInv, FallThrough
  PROVE  StackInv'
  <1> DEFINE kind == IF Top.kind = "delete" THEN "quit" ELSE "info"
             pr   == Pressed("zero")
             f    == [kind |-> kind, for |-> Top.for, choice |-> 1, pressed |-> pr,
                      shaded |-> Top.shaded, busy |-> Top.busy]
  <1>1. /\ Depth \in Nat /\ Depth > 0 /\ Top = stack[Depth] /\ Top \in Frames
        /\ FrameHolds(Top) /\ TopHolds /\ stack \in Seq(Frames) /\ Top.kind \in {"delete", "quit"}
    BY TopIs DEF StackInv, FallThrough, Reads
  <1>2. kind \in Kinds /\ kind \in {"quit", "info"} /\ pr \in SUBSET Askings
        /\ (Top.for = "delete" => pr # {})
    BY <1>1 DEF Kinds, Messages, Questions, Infos, Frames, Askings, Pressed
  <1> HIDE DEF kind, pr
  <1>3. f \in Frames /\ FrameHolds(f) /\ f.kind = kind /\ f.shaded = Top.shaded
    BY <1>1, <1>2 DEF Frames, FrameHolds
  <1>4. stack' = [stack EXCEPT ![Depth] = f]
    <2>1. [[[Top EXCEPT !.kind = kind] EXCEPT !.choice = 1] EXCEPT !.pressed = pr] = f
      <3>1. [Top EXCEPT !.kind = kind]
              = [kind |-> kind, for |-> Top.for, choice |-> Top.choice,
                 pressed |-> Top.pressed, shaded |-> Top.shaded, busy |-> Top.busy]
        BY <1>1 DEF Frames
      <3> DEFINE t1 == [kind |-> kind, for |-> Top.for, choice |-> Top.choice,
                 pressed |-> Top.pressed, shaded |-> Top.shaded, busy |-> Top.busy]
                 t2 == [kind |-> kind, for |-> Top.for, choice |-> 1,
                 pressed |-> Top.pressed, shaded |-> Top.shaded, busy |-> Top.busy]
      <3>2. [t1 EXCEPT !.choice = 1] = t2
        OBVIOUS
      <3>3. [t2 EXCEPT !.pressed = pr] = f
        OBVIOUS
      <3> QED BY <3>1, <3>2, <3>3
    <2> QED BY <2>1, <1>1 DEF FallThrough, kind, pr
  <1> HIDE DEF f
  <1>5. /\ stack' \in Seq(Frames) /\ Depth' = Depth /\ stack'[Depth] = f
        /\ \A i \in 1..Depth : i # Depth => stack'[i] = stack[i]
    BY <1>1, <1>3, <1>4 DEF Depth
  <1>6. Depth = 1
    BY <1>1 DEF StackInv, OverHolds, Engines
  <1>7. TopHolds'
    <2>1. Top' = f
      BY <1>5 DEF Top, Last, Depth
    <2> QED BY <2>1, <1>1, <1>2, <1>3 DEF TopHolds, FallThrough, Messages, Questions, Infos, Silent
  <1>8. ActiveHolds'
    <2>1. active' = 1 \/ active' = active
      BY <1>6 DEF FallThrough
    <2>2. stack'[1].kind \in Setting \cup {"info"}
      BY <1>2, <1>3, <1>5, <1>6 DEF Setting, Trying
    <2>3. active # Deleted
      BY <1>1, <1>6 DEF StackInv, ActiveHolds, Setting, Trying, Windows
    <2>4. active > 0 => active = 1
      BY <1>6 DEF StackInv, ActiveHolds, Deleted
    <2> QED BY <2>1, <2>2, <2>3, <2>4, <1>5, <1>6 DEF ActiveHolds, Deleted
  <1>9. UNCHANGED <<dontResize, doResize, alarm, transfers, loop>> /\ active' \in Deleted..MaxDepth
    BY <1>6, DialogAssumption DEF FallThrough, StackInv, Deleted
  <1> QED BY <1>3, <1>5, <1>6, <1>7, <1>8, <1>9 DEF StackInv

(* The windows stay as they are.                                           *)
LEMMA SameStack ==
  ASSUME StackInv, UNCHANGED <<stack, dontResize>>, active' \in {active, Main},
         stack # <<>> => UNCHANGED alarm,
         alarm' \in BOOLEAN, doResize' \in BOOLEAN, transfers' \in BOOLEAN,
         loop' \in {"key", "after", "ended"}
  PROVE  StackInv'
  <1>1. /\ Depth' = Depth /\ stack' = stack /\ Top' = Top
        /\ active' \in Deleted..MaxDepth /\ dontResize' = dontResize
    BY DialogAssumption DEF Depth, Top, StackInv, Deleted, Main
  <1>2. \A i \in 2..Depth : OverHolds(i)'
    BY <1>1 DEF StackInv, OverHolds
  <1>3. stack # <<>> => TopHolds'
    BY <1>1 DEF StackInv, TopHolds
  <1>4. ActiveHolds'
    BY <1>1 DEF StackInv, ActiveHolds, Deleted, Main
  <1> QED BY <1>1, <1>2, <1>3, <1>4 DEF StackInv

(* A change of the button that is chosen.                                  *)
LEMMA ChooseStep ==
  ASSUME StackInv, NEW kind \in Questions \cup Engines, Reads({kind}), NEW c \in 0..5,
         kind \in Questions => c \in 0..1, Chosen1(c)
  PROVE  StackInv'
  <1> DEFINE pr == Pressed("choose")
             f  == [kind |-> Top.kind, for |-> Top.for, choice |-> c, pressed |-> pr,
                    shaded |-> Top.shaded, busy |-> Top.busy]
  <1>1. /\ Depth \in Nat /\ Depth > 0 /\ Top = stack[Depth] /\ Top \in Frames
        /\ FrameHolds(Top) /\ TopHolds /\ stack \in Seq(Frames) /\ Top.kind = kind
        /\ stack # <<>>
    BY TopIs DEF StackInv, Reads
  <1>2. pr \in SUBSET Askings /\ (Top.for = "delete" => pr # {})
    BY <1>1 DEF Frames, Askings, Pressed
  <1> HIDE DEF pr
  <1>3. f \in Frames /\ FrameHolds(f) /\ f.kind = Top.kind /\ f.shaded = Top.shaded
        /\ f.kind \notin Silent
    BY <1>1, <1>2 DEF Frames, FrameHolds, Questions, Engines, Silent
  <1>4. stack' = [stack EXCEPT ![Depth] = f]
    <2> DEFINE t == [kind |-> Top.kind, for |-> Top.for, choice |-> c,
                     pressed |-> Top.pressed, shaded |-> Top.shaded, busy |-> Top.busy]
    <2>1. [Top EXCEPT !.choice = c] = t
      BY <1>1 DEF Frames
    <2>2. [t EXCEPT !.pressed = pr] = f
      OBVIOUS
    <2>3. stack' = [stack EXCEPT ![Depth].choice = c, ![Depth].pressed = pr]
      BY DEF Chosen1, pr
    <2> HIDE DEF t, f
    <2>4. stack' = [stack EXCEPT ![Depth] = [[stack[Depth] EXCEPT !.choice = c] EXCEPT !.pressed = pr]]
      BY <2>3, <1>1
    <2> QED BY <2>1, <2>2, <2>4, <1>1
  <1> HIDE DEF f
  <1>5. UNCHANGED <<active, dontResize, doResize, alarm, transfers, loop>> /\ alarm' \in BOOLEAN
    BY DEF Chosen1, StackInv
  <1> QED BY <1>1, <1>3, <1>4, <1>5, ReplaceTop

LEMMA CycleStep ==
  ASSUME StackInv, NEW kind \in Engines, NEW buttons \in {5, 6}, Cycle(kind, buttons)
  PROVE  StackInv'
  <1>1. Reads({kind}) /\ Top \in Frames /\ kind \notin Questions
    BY TopIs DEF Cycle, Reads, Engines, Questions
  <1>2. PICK step \in {1, -1} : Chosen1((Top.choice + step) % buttons)
    BY DEF Cycle
  <1>3. (Top.choice + step) % buttons \in 0..5
    BY <1>1 DEF Frames
  <1> QED BY <1>1, <1>2, <1>3, ChooseStep

LEMMA ToggleStep ==
  ASSUME StackInv, NEW kind \in Questions, Toggle(kind)
  PROVE  StackInv'
  <1>1. Reads({kind}) /\ Top.choice \in 0..1
    BY TopIs DEF Toggle, Reads, Questions, FrameHolds
  <1> QED BY <1>1, ChooseStep DEF Toggle

LEMMA FormStep ==
  ASSUME StackInv, FormKey
  PROVE  StackInv'
  <1> DEFINE c == (Top.choice + 1) % 3
             f == [kind |-> Top.kind, for |-> Top.for, choice |-> c, pressed |-> Top.pressed,
                   shaded |-> Top.shaded, busy |-> Top.busy]
  <1>1. /\ Depth \in Nat /\ Depth > 0 /\ Top = stack[Depth] /\ Top \in Frames
        /\ FrameHolds(Top) /\ TopHolds /\ stack \in Seq(Frames) /\ Top.kind \in Forms
        /\ stack # <<>>
    BY TopIs DEF StackInv, Reads, FormKey
  <1>2. c \in 0..5
    BY <1>1 DEF Frames
  <1>3. stack' = [stack EXCEPT ![Depth] = [stack[Depth] EXCEPT !.choice = c]]
    BY <1>1 DEF FormKey
  <1> HIDE DEF c
  <1>4. f \in Frames /\ FrameHolds(f) /\ f.kind = Top.kind /\ f.shaded = Top.shaded
        /\ f.busy = Top.busy
    BY <1>1, <1>2 DEF Frames, FrameHolds, Forms
  <1>5. [Top EXCEPT !.choice = c] = f
    BY <1>1 DEF Frames
  <1> HIDE DEF f
  <1>6. UNCHANGED <<active, dontResize, doResize, alarm, transfers, loop>> /\ alarm' \in BOOLEAN
    BY DEF FormKey, StackInv
  <1>7. f.kind \in Silent => ~alarm' \/ f.shaded \/ f.busy
    <2> SUFFICES ASSUME f.kind \in Silent, alarm' PROVE Top.shaded \/ Top.busy
      BY <1>4
    <2> QED BY <1>1, <1>4, <1>6 DEF TopHolds
  <1> QED BY <1>1, <1>3, <1>4, <1>5, <1>6, <1>7, ReplaceTop

LEMMA TryStep ==
  ASSUME StackInv, TryInWindow
  PROVE  StackInv'
  <1> DEFINE b == Top.busy \/ transfers
             f == [kind |-> Top.kind, for |-> Top.for, choice |-> Top.choice,
                   pressed |-> Top.pressed, shaded |-> Top.shaded, busy |-> b]
  <1>1. /\ Depth \in Nat /\ Depth > 0 /\ Top = stack[Depth] /\ Top \in Frames
        /\ FrameHolds(Top) /\ TopHolds /\ stack \in Seq(Frames) /\ stack # <<>>
    BY TopIs DEF StackInv, Reads, TryInWindow
  <1>2. stack' = [stack EXCEPT ![Depth] = [stack[Depth] EXCEPT !.busy = b]] /\ b \in BOOLEAN
    BY <1>1 DEF TryInWindow, StackInv, Frames
  <1>3. UNCHANGED <<active, dontResize, doResize, transfers, loop>> /\ alarm' \in BOOLEAN
        /\ alarm' = (alarm \/ transfers)
    BY DEF TryInWindow, StackInv
  <1>4. Top.kind \in Silent => ~alarm' \/ Top.shaded \/ b
    BY <1>1, <1>3 DEF TopHolds
  <1> HIDE DEF b
  <1>5. f \in Frames /\ FrameHolds(f) /\ f.kind = Top.kind /\ f.shaded = Top.shaded /\ f.busy = b
    BY <1>1, <1>2 DEF Frames, FrameHolds
  <1>6. [Top EXCEPT !.busy = b] = f
    BY <1>1 DEF Frames
  <1> HIDE DEF f
  <1> QED BY <1>1, <1>2, <1>3, <1>4, <1>5, <1>6, ReplaceTop

LEMMA QuietStep ==
  ASSUME event' = Nothing
  PROVE  DialogsHold'
  BY DEF Nothing, DialogsHold, AskedBefore, NoResizeBelow, ActiveIsOpen

(* An answer that is not yes to a question about a delete.                 *)
LEMMA AnswerStep ==
  ASSUME StackInv, stack # <<>>, NEW yes \in BOOLEAN, Answer(yes), UNCHANGED transfers,
         yes => Top.choice = 1
  PROVE  DialogInv'
  <1>1. StackInv'
    BY PopStep DEF Answer
  <1>2. CASE Top.for = "delete" /\ yes
    <2>1. event' = [what |-> "deleted", pressed |-> Top.pressed]
      BY <1>2 DEF Answer
    <2>2. Top.pressed # {}
      BY <1>2, TopIs DEF FrameHolds
    <2> QED BY <1>1, <2>1, <2>2 DEF DialogInv, DialogsHold, AskedBefore, NoResizeBelow, ActiveIsOpen
  <1>3. CASE ~(Top.for = "delete" /\ yes)
    <2>1. event' = Nothing
      BY <1>3 DEF Answer
    <2> QED BY <1>1, <2>1, QuietStep DEF DialogInv
  <1> QED BY <1>2, <1>3

LEMMA StepDialog ==
  ASSUME DialogInv, [DialogNext]_dialogVars
  PROVE  DialogInv'
  <1>0. StackInv /\ DialogsHold
    BY DEF DialogInv
  <1>1. ASSUME NEW kind \in {"help", "info"} \cup Questions \cup Forms \cup Windows,
               OpenFromMain(kind)
        PROVE  DialogInv'
    BY <1>0, <1>1, OpenFromMainStep, QuietStep DEF DialogInv, OpenFromMain
  <1>2. CASE OpenNotice
    <2>1. Depth = 1 /\ stack[1].kind \in Windows
      <3>1. Depth \in Nat /\ Depth > 0 /\ Top = stack[Depth] /\ Top.kind \in Windows
        BY <1>0, <1>2, TopIs DEF OpenNotice, Reads
      <3>2. ~(Depth \in 2..Depth)
        BY <1>0, <3>1 DEF StackInv, OverHolds, Engines, Windows
      <3> QED BY <3>1, <3>2
    <2> QED BY <2>1, <1>0, <1>2, PushStep, QuietStep DEF DialogInv, OpenNotice
  <1>3. CASE TryInWindow
    <2>1. StackInv'
      BY <1>0, <1>3, TryStep
    <2>2. DialogsHold'
      <3>1. CASE active = Deleted
        <4>1. /\ Depth \in Nat /\ Depth > 0 /\ Top = stack[Depth] /\ Top.kind \in Trying
              /\ Top \in Frames /\ stack \in Seq(Frames) /\ stack # <<>>
          BY <1>0, <1>3, TopIs DEF TryInWindow, Reads, StackInv
        <4>2. Top.kind \in Windows
          BY <4>1, <3>1, <1>0 DEF StackInv, ActiveHolds, Setting
        <4>3. Depth' = Depth /\ stack' # <<>> /\ Top'.kind = Top.kind
          <5>1. stack' = [stack EXCEPT ![Depth] = [stack[Depth] EXCEPT !.busy = @ \/ transfers]]
            BY <1>3 DEF TryInWindow
          <5>2. [Top EXCEPT !.busy = Top.busy \/ transfers].kind = Top.kind
            BY <4>1 DEF Frames
          <5>3. Len(stack') = Len(stack) /\ stack'[Depth].kind = Top.kind
            BY <4>1, <5>1, <5>2 DEF Depth
          <5> QED BY <4>1, <5>3 DEF Depth, Top, Last
        <4>4. event'.what = "dangling" /\ event'.in \in Windows
          BY <1>3, <3>1, <4>2, <4>3 DEF TryInWindow, Use
        <4> QED BY <4>4 DEF DialogsHold, AskedBefore, NoResizeBelow, ActiveIsOpen
      <3>2. CASE active # Deleted
        BY <1>3, <3>2, QuietStep DEF TryInWindow, Use
      <3> QED BY <3>1, <3>2
    <2> QED BY <2>1, <2>2 DEF DialogInv
  <1>4. CASE EngineAsks
    <2>1. PICK kind \in Engines : Push(kind, kind)
      BY <1>4 DEF EngineAsks
    <2>2. kind # "notice" /\ kind \in Engines \cup {"mail", "notice"}
      BY DEF Engines
    <2> QED BY <1>0, <1>4, <2>1, <2>2, PushStep, QuietStep DEF EngineAsks, DialogInv
  <1>5. CASE TransfersEnd \/ LeaveMain \/ Sigwinch
    <2>1. event' = Nothing /\ StackInv'
      BY <1>0, <1>5, SameStack DEF TransfersEnd, LeaveMain, Sigwinch, StackInv
    <2> QED BY <2>1, QuietStep DEF DialogInv
  <1>6. CASE AfterKey
    <2>1. StackInv'
      BY <1>0, <1>6, SameStack DEF AfterKey, StackInv
    <2>2. event' = Nothing \/ event' = [what |-> "dangling", in |-> "main"]
      BY <1>6 DEF AfterKey, Use
    <2> QED BY <2>1, <2>2, QuietStep DEF DialogInv, DialogsHold, AskedBefore, NoResizeBelow, ActiveIsOpen
  <1>7. CASE ChooseDelete \/ ChooseQuit \/ ChooseCopy
    <2>1. PICK kind \in Questions : Toggle(kind)
      BY <1>7 DEF ChooseDelete, ChooseQuit, ChooseCopy, Questions
    <2> QED BY <1>0, <2>1, ToggleStep, QuietStep DEF DialogInv, Toggle, Chosen1
  <1>8. CASE ChooseDifferent \/ ChooseBroken \/ ChooseFull
    <2>1. PICK kind \in Engines, buttons \in {5, 6} : Cycle(kind, buttons)
      BY <1>8 DEF ChooseDifferent, ChooseBroken, ChooseFull, Engines
    <2> QED BY <1>0, <2>1, CycleStep, QuietStep DEF DialogInv, Cycle, Chosen1
  <1>9. CASE AnswerQuestion
    BY <1>0, <1>9, AnswerStep DEF AnswerQuestion, Reads
  <1>10. CASE AnswerCopy
    <2>1. CASE Top.choice = 0
      BY <1>0, <1>10, <2>1, AnswerStep DEF AnswerCopy, Reads
    <2>2. CASE Top.choice # 0
      <3>1. stack' = <<>> /\ stack' \in Seq(Frames) /\ event' = Nothing /\ active' = Main
        BY <1>10, <2>2 DEF AnswerCopy
      <3>2. Depth' = 0 /\ 1..Depth' = {} /\ 2..Depth' = {}
        BY <3>1 DEF Depth
      <3>3. ActiveHolds'
        BY <3>1, <3>2 DEF ActiveHolds, Main, Deleted
      <3>4. /\ active' \in Deleted..MaxDepth /\ dontResize' \in BOOLEAN /\ alarm' \in BOOLEAN
            /\ doResize' \in BOOLEAN /\ transfers' \in BOOLEAN /\ loop' \in {"key", "after", "ended"}
        <4>1. /\ active' = Main /\ dontResize' = FALSE /\ transfers' = TRUE /\ loop' = "after"
              /\ alarm' = alarm /\ doResize' = doResize
          BY <1>10, <2>2 DEF AnswerCopy
        <4>2. active' \in Deleted..MaxDepth
          BY <4>1, DialogAssumption DEF Main, Deleted
        <4>3. alarm \in BOOLEAN /\ doResize \in BOOLEAN
          BY <1>0 DEF StackInv
        <4> QED BY <4>1, <4>2, <4>3
      <3>5. StackInv'
        BY <3>1, <3>2, <3>3, <3>4 DEF StackInv
      <3> QED BY <3>1, <3>5, QuietStep DEF DialogInv
    <2> QED BY <2>1, <2>2
  <1>11. CASE AnswerEngine
    BY <1>0, <1>11, PopStep, QuietStep DEF AnswerEngine, Reads, DialogInv
  <1>12. CASE PressEnter \/ AcknowledgeHelp \/ AcknowledgeNotice \/ AcknowledgeMail
    BY <1>0, <1>12, AnswerStep
    DEF PressEnter, AcknowledgeHelp, AcknowledgeNotice, AcknowledgeMail, Acknowledge, Reads
  <1>13. CASE FallThrough
    BY <1>0, <1>13, FallThroughStep, QuietStep DEF DialogInv, FallThrough
  <1>14. CASE BreakOff \/ CloseForm
    BY <1>0, <1>14, AnswerStep DEF BreakOff, CloseForm, Reads
  <1>15. CASE FormKey
    BY <1>0, <1>15, FormStep, QuietStep DEF DialogInv, FormKey
  <1>16. CASE SigAlarm
    <2>1. CASE ResizeNow /\ doResize' = FALSE /\ active' = Main /\ UNCHANGED <<stack, dontResize, alarm>>
      <3>1. StackInv'
        BY <1>0, <1>16, <2>1, SameStack DEF SigAlarm, StackInv
      <3>2. CASE stack = <<>>
        BY <2>1, <3>1, <3>2, QuietStep DEF ResizeNow, DialogInv
      <3>3. CASE stack # <<>>
        <4>1. event' = [what |-> "painted", over |-> Top] /\ ~dontResize /\ alarm
          BY <1>16, <2>1, <3>3 DEF ResizeNow, SigAlarm
        <4>2. TopHolds
          BY <1>0, <3>3 DEF StackInv
        <4>3. NoResizeBelow'
          BY <4>1, <4>2 DEF NoResizeBelow, TopHolds
        <4> QED BY <3>1, <4>1, <4>3 DEF DialogInv, DialogsHold, AskedBefore, ActiveIsOpen
      <3> QED BY <3>2, <3>3
    <2>2. CASE Push("mail", "mail") /\ event' = Nothing /\ UNCHANGED doResize
      BY <1>0, <1>16, <2>2, PushStep, QuietStep DEF SigAlarm, DialogInv
    <2> QED BY <1>16, <2>1, <2>2 DEF SigAlarm
  <1>17. CASE UNCHANGED dialogVars
    <2>1. StackInv'
      BY <1>0, <1>17, SameStack DEF dialogVars, StackInv
    <2>2. DialogsHold'
      BY <1>0, <1>17 DEF dialogVars, DialogsHold, AskedBefore, NoResizeBelow, ActiveIsOpen
    <2> QED BY <2>1, <2>2 DEF DialogInv
  <1> QED
    BY <1>1, <1>2, <1>3, <1>4, <1>5, <1>6, <1>7, <1>8, <1>9, <1>10, <1>11, <1>12, <1>13,
       <1>14, <1>15, <1>16, <1>17 DEF DialogNext

(* However many windows are open one above the other, what they share      *)
(* (RdontResizeWindow, the alarm, RactiveWindow) does no harm but in the   *)
(* cases named in DialogsHold, and no answer is given that nobody chose    *)
(* (RshowMessage, RsigAlarm, RtryDownloadUpload).                          *)
THEOREM DialogsShare ==
  DialogInit /\ [][DialogNext]_dialogVars => []DialogsHold
  <1>1. DialogInv => DialogsHold
    BY DEF DialogInv
  <1> QED BY <1>1, InitDialog, StepDialog, PTL
-----------------------------------------------------------------------------
(* LineEditor: the field shows the text.                                   *)

EditorInv == EditorTypeOK /\ EditorShows

(* The field shows the text it is painted with, but for the last column.   *)
LEMMA PaintingShows ==
  ASSUME NEW letters \in Seq(Letters), NEW first \in Nat, NEW cursor \in Nat,
         first <= cursor, cursor < first + WinSize
  PROVE  /\ Painting(letters, first, cursor) \in [0..WinSize - 1 -> Letters \cup {" "}]
         /\ \A k \in 0..WinSize - 2 :
              Painting(letters, first, cursor)[k]
                = IF first + k < Len(letters) THEN letters[first + k + 1] ELSE " "
  <1>1. \A k \in 0..WinSize - 1 : Letter(letters, first + k) \in Letters \cup {" "}
    <2> SUFFICES ASSUME NEW k \in 0..WinSize - 1
                 PROVE  Letter(letters, first + k) \in Letters \cup {" "}
      OBVIOUS
    <2>1. k \in Nat /\ first + k \in Nat /\ Len(letters) \in Nat
      BY EditorAssumption
    <2>2. first + k < Len(letters) => letters[first + k + 1] \in Letters
      BY <2>1
    <2> QED BY <2>2 DEF Letter
  <1>2. ASSUME NEW k \in 0..WinSize - 2
        PROVE  Painting(letters, first, cursor)[k]
                 = IF first + k < Len(letters) THEN letters[first + k + 1] ELSE " "
    <2> DEFINE col == cursor - first
    <2>1. k \in 0..WinSize - 1 /\ k \in Int /\ col \in Int /\ WinSize \in Int
      BY EditorAssumption
    <2>2. k < col \/ (k = col /\ col < WinSize - 1) \/ (k > col /\ col < WinSize - 2)
      BY <2>1
    <2>3. Painting(letters, first, cursor)[k] = Letter(letters, first + k)
      BY <2>1, <2>2 DEF Painting
    <2> QED BY <2>3 DEF Letter
  <1> QED BY <1>1, <1>2 DEF Painting

LEMMA InitEditor == EditorInit => EditorInv
  <1> SUFFICES ASSUME EditorInit PROVE EditorInv
    OBVIOUS
  <1>1. /\ buf \in Seq(Letters) /\ Len(buf) \in Nat /\ Len(buf) < SizeBuf
        /\ startidx = 0 /\ wxx = 0 /\ screen = Painting(buf, 0, 0) /\ WinSize \in Nat /\ WinSize > 0
    BY EditorAssumption DEF EditorInit
  <1>2. /\ screen \in [0..WinSize - 1 -> Letters \cup {" "}]
        /\ \A k \in 0..WinSize - 2 : screen[k] = IF 0 + k < Len(buf) THEN buf[0 + k + 1] ELSE " "
    <2>1. 0 \in Nat /\ 0 <= 0 /\ 0 < 0 + WinSize
      BY <1>1
    <2>2. buf \in Seq(Letters) /\ screen = Painting(buf, 0, 0)
      BY <1>1
    <2> QED BY <2>1, <2>2, PaintingShows
  <1>a. EditorPaints
    BY <1>1, <1>2 DEF EditorPaints
  <1>b. ctrlp \in 0..2 /\ answered \in 0..2 /\ behind = FALSE
    BY DEF EditorInit
  <1>3. EditorTypeOK
    BY <1>1, <1>2, <1>b DEF EditorTypeOK
  <1>4. EditorInside
    BY <1>1 DEF EditorInside
  <1> QED BY <1>a, <1>3, <1>4 DEF EditorInv, EditorShows

(* Any key that leaves the cursor in the field and, unless the end was     *)
(* deleted behind it, in the text.                                         *)
LEMMA EditedStep ==
  ASSUME EditorInv, NEW letters \in Seq(Letters), NEW first \in Nat, NEW cursor \in Nat,
         Edited(letters, first, cursor), first <= cursor, cursor < first + WinSize,
         Len(letters) < SizeBuf, behind' \in BOOLEAN, behind' \/ cursor <= Len(letters)
  PROVE  EditorInv'
  <1>1. /\ buf' = letters /\ startidx' = first /\ wxx' = cursor
        /\ ctrlp' = ctrlp /\ answered' = answered
        /\ screen' = IF InText(letters, first, cursor) THEN Painting(letters, first, cursor) ELSE screen
    BY DEF Edited
  <1>2. Len(letters) \in Nat
    OBVIOUS
  <1>3. cursor <= Len(letters) => InText(letters, first, cursor)
    BY <1>2 DEF InText
  <1>4. screen' \in [0..WinSize - 1 -> Letters \cup {" "}]
    BY <1>1, PaintingShows DEF EditorInv, EditorTypeOK
  <1>5. EditorPaints'
    BY <1>1, <1>3, PaintingShows DEF EditorPaints
  <1>6. EditorInside'
    BY <1>1 DEF EditorInside
  <1>7. EditorTypeOK'
    BY <1>1, <1>4 DEF EditorInv, EditorTypeOK
  <1> QED BY <1>5, <1>6, <1>7 DEF EditorInv, EditorShows

LEMMA RemoveIs ==
  ASSUME NEW s \in Seq(Letters), NEW i \in 1..Len(s)
  PROVE  RemoveAt(s, i) \in Seq(Letters) /\ Len(RemoveAt(s, i)) = Len(s) - 1
  <1>1. \A j \in 1..Len(s) : s[j] \in Letters
    OBVIOUS
  <1>2. SubSeq(s, 1, i - 1) \in Seq(Letters) /\ Len(SubSeq(s, 1, i - 1)) = i - 1
    BY <1>1, SubSeqProperties
  <1>3. SubSeq(s, i + 1, Len(s)) \in Seq(Letters) /\ Len(SubSeq(s, i + 1, Len(s))) = Len(s) - i
    BY <1>1, SubSeqProperties
  <1> DEFINE a == SubSeq(s, 1, i - 1)
             b == SubSeq(s, i + 1, Len(s))
  <1>4. RemoveAt(s, i) = a \o b
    BY DEF RemoveAt
  <1>5. a \in Seq(Letters) /\ b \in Seq(Letters) /\ Len(a) = i - 1 /\ Len(b) = Len(s) - i
    BY <1>2, <1>3
  <1> HIDE DEF a, b
  <1>6. a \o b \in Seq(Letters) /\ Len(a \o b) = Len(a) + Len(b)
    BY <1>5, ConcatProperties
  <1>7. Len(s) \in Nat /\ i \in Int
    OBVIOUS
  <1> QED BY <1>4, <1>5, <1>6, <1>7

LEMMA InsertIs ==
  ASSUME NEW s \in Seq(Letters), NEW i \in 1..Len(s) + 1, NEW c \in Letters
  PROVE  InsertAt(s, i, c) \in Seq(Letters) /\ Len(InsertAt(s, i, c)) = Len(s) + 1
  <1>1. \A j \in 1..Len(s) : s[j] \in Letters
    OBVIOUS
  <1>2. SubSeq(s, 1, i - 1) \in Seq(Letters) /\ Len(SubSeq(s, 1, i - 1)) = i - 1
    BY <1>1, SubSeqProperties
  <1>3. SubSeq(s, i, Len(s)) \in Seq(Letters) /\ Len(SubSeq(s, i, Len(s))) = Len(s) - i + 1
    BY <1>1, SubSeqProperties
  <1>4. SubSeq(s, 1, i - 1) \o <<c>> \in Seq(Letters) /\ Len(SubSeq(s, 1, i - 1) \o <<c>>) = i
    BY <1>2, ConcatProperties
  <1> DEFINE a == SubSeq(s, 1, i - 1) \o <<c>>
             b == SubSeq(s, i, Len(s))
  <1>5. InsertAt(s, i, c) = a \o b
    BY DEF InsertAt
  <1>6. a \in Seq(Letters) /\ b \in Seq(Letters) /\ Len(a) + Len(b) = Len(s) + 1
    BY <1>3, <1>4
  <1> HIDE DEF a, b
  <1> QED BY <1>5, <1>6, ConcatProperties

LEMMA ShorterIs ==
  ASSUME buf \in Seq(Letters), wxx \in Nat, buf # <<>>
  PROVE  /\ Shorter \in Seq(Letters)
         /\ Len(Shorter) = IF wxx <= Len(buf) THEN Len(buf) - 1 ELSE Len(buf)
  <1>1. Len(buf) \in Nat /\ Len(buf) > 0 /\ \A j \in 1..Len(buf) : buf[j] \in Letters
    OBVIOUS
  <1>2. CASE wxx = Len(buf)
    <2>1. SubSeq(buf, 1, wxx - 1) \in Seq(Letters) /\ Len(SubSeq(buf, 1, wxx - 1)) = wxx - 1
      BY <1>1, <1>2, SubSeqProperties
    <2> QED BY <1>2, <2>1 DEF Shorter
  <1>3. CASE wxx < Len(buf)
    <2>1. wxx + 1 \in 1..Len(buf) /\ Shorter = RemoveAt(buf, wxx + 1)
      BY <1>1, <1>3 DEF Shorter
    <2> QED BY <1>1, <1>3, <2>1, RemoveIs
  <1>4. CASE wxx > Len(buf)
    BY <1>1, <1>4 DEF Shorter
  <1> QED BY <1>1, <1>2, <1>3, <1>4

LEMMA StepEditor ==
  ASSUME EditorInv, [EditorNext]_editorVars
  PROVE  EditorInv'
  <1>1. /\ buf \in Seq(Letters) /\ startidx \in Nat /\ wxx \in Nat /\ behind \in BOOLEAN
        /\ WinSize \in Nat /\ WinSize > 1 /\ SizeBuf \in Nat /\ Len(buf) \in Nat
        /\ startidx <= wxx /\ wxx < startidx + WinSize /\ Len(buf) < SizeBuf
        /\ behind \/ wxx <= Len(buf)
    <2>1. EditorTypeOK /\ EditorInside
      BY DEF EditorInv, EditorShows
    <2>2. WinSize \in Nat /\ WinSize > 1 /\ SizeBuf \in Nat
      BY EditorAssumption
    <2>3. buf \in Seq(Letters) /\ startidx \in Nat /\ wxx \in Nat /\ behind \in BOOLEAN
      BY <2>1 DEF EditorTypeOK
    <2>4. Len(buf) \in Nat
      BY <2>3
    <2> QED BY <2>1, <2>2, <2>3, <2>4 DEF EditorInside
  <1>2. CASE Backspace
    <2> DEFINE first == IF startidx > 0 THEN startidx - 1 ELSE 0
    <2>1. buf # <<>> /\ wxx > 0 /\ Edited(Shorter, first, wxx - 1) /\ behind' = behind
      BY <1>2 DEF Backspace
    <2>2. /\ first \in Nat /\ wxx - 1 \in Nat /\ first <= wxx - 1 /\ wxx - 1 < first + WinSize
      BY <1>1, <2>1
    <2>3. Shorter \in Seq(Letters) /\ Len(Shorter) < SizeBuf /\ (behind \/ wxx - 1 <= Len(Shorter))
      BY <1>1, <2>1, ShorterIs
    <2> HIDE DEF first
    <2> QED BY <1>1, <2>1, <2>2, <2>3, EditedStep
  <1>3. CASE Delete
    <2>1. buf # <<>> /\ Edited(Shorter, startidx, wxx) /\ behind' = (behind \/ wxx = Len(buf))
      BY <1>3 DEF Delete
    <2>2. Shorter \in Seq(Letters) /\ Len(Shorter) < SizeBuf
          /\ (behind \/ wxx = Len(buf) \/ wxx <= Len(Shorter))
      BY <1>1, <2>1, ShorterIs
    <2> QED BY <1>1, <2>1, <2>2, EditedStep
  <1>4. CASE HomeKey
    BY <1>1, <1>4, EditedStep DEF HomeKey
  <1>5. CASE EndKey
    <2> DEFINE first == IF Len(buf) < WinSize THEN 0 ELSE Len(buf) - WinSize + 1
    <2>1. Edited(buf, first, Len(buf)) /\ behind' = behind
      BY <1>5 DEF EndKey
    <2>2. first \in Nat /\ first <= Len(buf) /\ Len(buf) < first + WinSize
      BY <1>1
    <2> HIDE DEF first
    <2> QED BY <1>1, <2>1, <2>2, EditedStep
  <1>6. CASE Left
    <2>1. CASE startidx > 0 /\ startidx = wxx
      <3>1. Edited(buf, startidx - 1, wxx - 1) /\ behind' = behind
        BY <1>6, <2>1 DEF Left
      <3> QED BY <1>1, <2>1, <3>1, EditedStep
    <2>2. CASE ~(startidx > 0 /\ startidx = wxx)
      <3> DEFINE cursor == IF wxx > 0 THEN wxx - 1 ELSE wxx
      <3>1. Edited(buf, startidx, cursor) /\ behind' = behind
        BY <1>6, <2>2 DEF Left
      <3>2. cursor \in Nat /\ startidx <= cursor /\ cursor <= wxx
        BY <1>1, <2>2
      <3> HIDE DEF cursor
      <3> QED BY <1>1, <3>1, <3>2, EditedStep
    <2> QED BY <2>1, <2>2
  <1>7. CASE Right
    <2>1. CASE startidx + WinSize <= Len(buf) /\ startidx + WinSize = wxx + 1
      <3> DEFINE cursor == IF wxx + 1 < Len(buf) THEN wxx + 1 ELSE wxx
      <3>1. Edited(buf, startidx + 1, cursor) /\ behind' = behind
        BY <1>7, <2>1 DEF Right
      <3>2. /\ cursor \in Nat /\ startidx + 1 <= cursor /\ cursor < startidx + 1 + WinSize
            /\ cursor <= Len(buf)
        BY <1>1, <2>1
      <3> HIDE DEF cursor
      <3> QED BY <1>1, <3>1, <3>2, EditedStep
    <2>2. CASE ~(startidx + WinSize <= Len(buf) /\ startidx + WinSize = wxx + 1)
      <3>1. Edited(buf, startidx, wxx + 1) /\ behind' = behind /\ wxx < Len(buf)
        BY <1>7, <2>2 DEF Right
      <3>2. wxx + 1 < startidx + WinSize
        BY <1>1, <2>2, <3>1
      <3> QED BY <1>1, <3>1, <3>2, EditedStep
    <2> QED BY <2>1, <2>2
  <1>8. CASE Type
    <2> DEFINE first == IF startidx + WinSize = wxx + 1 THEN startidx + 1 ELSE startidx
    <2>1. Len(buf) + 1 < SizeBuf /\ behind' = behind
      BY <1>8 DEF Type
    <2>2. PICK c \in Letters :
            Edited(IF wxx <= Len(buf) THEN InsertAt(buf, wxx + 1, c) ELSE buf, first, wxx + 1)
      BY <1>8 DEF Type
    <2>3. first \in Nat /\ first <= wxx + 1 /\ wxx + 1 < first + WinSize
      BY <1>1
    <2> HIDE DEF first
    <2>4. CASE wxx <= Len(buf)
      <3>1. InsertAt(buf, wxx + 1, c) \in Seq(Letters)
            /\ Len(InsertAt(buf, wxx + 1, c)) = Len(buf) + 1
        <4>1. wxx + 1 \in 1..Len(buf) + 1
          BY <1>1, <2>4
        <4> QED BY <1>1, <4>1, InsertIs
      <3>2. Edited(InsertAt(buf, wxx + 1, c), first, wxx + 1)
        BY <2>2, <2>4
      <3> QED BY <1>1, <2>1, <2>3, <2>4, <3>1, <3>2, EditedStep
    <2>5. CASE wxx > Len(buf)
      <3>1. Edited(buf, first, wxx + 1)
        BY <1>1, <2>2, <2>5
      <3> QED BY <1>1, <2>1, <2>3, <2>5, <3>1, EditedStep
    <2> QED BY <1>1, <2>4, <2>5
  <1>9. CASE LeaveField \/ CtrlP
    <2>1. ctrlp \in 0..2 /\ answered \in 0..2
      BY DEF EditorInv, EditorTypeOK
    <2>2. ctrlp' \in {0, 1, 2, ctrlp} /\ answered' \in {1, 2, answered}
      BY <1>9 DEF LeaveField, CtrlP
    <2>3. UNCHANGED <<buf, startidx, wxx, screen, behind>>
      BY <1>9 DEF LeaveField, CtrlP
    <2>4. ctrlp' \in 0..2 /\ answered' \in 0..2
      BY <2>1, <2>2
    <2> QED BY <2>3, <2>4 DEF EditorInv, EditorTypeOK, EditorShows, EditorInside, EditorPaints
  <1>10. CASE UNCHANGED editorVars
    BY <1>10 DEF editorVars, EditorInv, EditorTypeOK, EditorShows, EditorInside, EditorPaints
  <1> QED
    BY <1>2, <1>3, <1>4, <1>5, <1>6, <1>7, <1>8, <1>9, <1>10 DEF EditorNext

(* Whatever keys are used in a field of any width over a buffer of any     *)
(* size, the text stays in the buffer, the cursor in the field and, unless *)
(* the end was deleted behind it, in the text, and the field shows what is *)
(* edited (readlineOneCharNoDelay, refreshTxtInWinCursor).                 *)
THEOREM EditorShowsText ==
  EditorInit /\ [][EditorNext]_editorVars => []EditorShows
  <1>1. EditorInv => EditorShows
    BY DEF EditorInv
  <1> QED BY <1>1, InitEditor, StepEditor, PTL
-----------------------------------------------------------------------------
(* Bookmarks: the file and the rows of the window.                         *)

Marks == [spot : Spots, del : BOOLEAN]
Books == [at : {"closed", "open", "crash", "unlink", "write"}, list : Seq(Marks), first : Nat,
          select : Nat, cut : BOOLEAN, changed : BOOLEAN]

(* The bookmarks in a list, and those that are not marked to be deleted.   *)
SpotsOf(l)  == {l[i].spot : i \in 1..Len(l)}
LiveOf(l)   == {l[i].spot : i \in {j \in 1..Len(l) : ~l[j].del}}
OnceSpot(l) == \A i, j \in 1..Len(l) : l[i].spot = l[j].spot => i = j
GoodList(l) == l \in Seq(Marks) /\ OnceSpot(l) /\ SpotsOf(l) \subseteq Spots \ UpSpots

(* What is shown begins with the first bookmark or fills the window.       *)
Fits(b) == b.first = 0 \/ b.first + maxY <= Len(b.list)

BookInv ==
  /\ marksFile \in Seq(Spots) /\ Once(marksFile) /\ Elems(marksFile) \subseteq Spots \ UpSpots
  /\ book \in Books /\ GoodList(book.list) /\ maxY \in BookRows
  /\ wanted \subseteq Spots /\ torn \in BOOLEAN /\ unread \in BOOLEAN /\ grown \in BOOLEAN
  /\ book.at = "open" => Fits(book)
  /\ book.at = "crash" => grown
  /\ Elems(marksFile) \subseteq wanted
  /\ book.at = "write" => LiveOf(book.list) \subseteq wanted
  /\ ~torn /\ book.at # "write" => Elems(marksFile) = wanted
  /\ ~torn /\ ~unread /\ book.at \in {"open", "unlink"} => wanted \subseteq SpotsOf(book.list)
  /\ ~torn /\ book.at = "write" => wanted = LiveOf(book.list)

(* The file gets every bookmark that is not marked, each once.             *)
LEMMA KeptIs ==
  ASSUME NEW l, GoodList(l)
  PROVE  /\ Kept(l) \in Seq(Spots) /\ Once(Kept(l)) /\ Elems(Kept(l)) = LiveOf(l)
         /\ LiveOf(l) \subseteq SpotsOf(l)
  <1> DEFINE n == Len(l)
             s == [i \in DOMAIN l |-> l[i].spot]
             P == {i \in DOMAIN l : ~l[i].del}
  <1>1. /\ n \in Nat /\ DOMAIN l = 1..n /\ \A i \in 1..n : l[i].spot \in Spots
        /\ \A i, j \in 1..n : l[i].spot = l[j].spot => i = j
    <2>1. \A i \in 1..n : l[i] \in Marks
      BY DEF GoodList
    <2>2. \A i \in 1..n : l[i].spot \in Spots
      BY <2>1 DEF Marks
    <2> QED BY <2>2 DEF GoodList, OnceSpot
  <1>2. s \in Seq(Spots) /\ Len(s) = n /\ \A i \in 1..n : s[i] = l[i].spot
    BY <1>1
  <1>3. P \subseteq 1..Len(s) /\ \A i, j \in P : s[i] = s[j] => i = j
    BY <1>1, <1>2
  <1>4. LiveOf(l) = {s[i] : i \in P} /\ LiveOf(l) \subseteq SpotsOf(l)
    BY <1>1, <1>2 DEF LiveOf, SpotsOf
  <1>5. Kept(l) = Keep(s, P)
    BY DEF Kept
  <1> HIDE DEF s, P
  <1>6. s \in Seq(Spots) /\ P \subseteq 1..Len(s)
    BY <1>2, <1>3
  <1>7. Keep(s, P) \in Seq(Spots) /\ Elems(Keep(s, P)) = {s[i] : i \in P}
    BY <1>6, KeepIs
  <1>8. Once(Keep(s, P))
    BY <1>3, <1>6, KeepOnce
  <1> QED BY <1>4, <1>5, <1>7, <1>8
-----------------------------------------------------------------------------
(* What the keys do to the window: another place, another order.           *)

AlikeBooks(b, c) ==
  /\ c \in Books /\ GoodList(c.list) /\ c.at = b.at
  /\ SpotsOf(c.list) = SpotsOf(b.list) /\ Len(c.list) = Len(b.list)

LEMMA PlacedIs ==
  ASSUME NEW b \in Books, GoodList(b.list), NEW f \in Nat, NEW s \in Nat
  PROVE  /\ AlikeBooks(b, b) /\ AlikeBooks(b, ShownFrom(b, f, s)) /\ ShownFrom(b, f, s).first = f
  <1> DEFINE a == [at |-> b.at, list |-> b.list, first |-> f, select |-> b.select,
                   cut |-> b.cut, changed |-> b.changed]
             g == [at |-> b.at, list |-> b.list, first |-> f, select |-> s,
                   cut |-> b.cut, changed |-> b.changed]
  <1>1. [b EXCEPT !.first = f] = a
    BY DEF Books
  <1>2. [a EXCEPT !.select = s] = g
    OBVIOUS
  <1>3. g \in Books /\ g.at = b.at /\ g.list = b.list /\ g.first = f
    BY DEF Books
  <1> HIDE DEF a, g
  <1>4. ShownFrom(b, f, s) = g
    BY <1>1, <1>2 DEF ShownFrom
  <1> QED BY <1>3, <1>4 DEF AlikeBooks

LEMMA ExchangeIs ==
  ASSUME NEW l, GoodList(l), NEW i \in 1..Len(l) - 1
  PROVE  /\ GoodList(Exchange(l, i)) /\ Len(Exchange(l, i)) = Len(l)
         /\ SpotsOf(Exchange(l, i)) = SpotsOf(l)
  <1> DEFINE n == Len(l)
             m == Exchange(l, i)
  <1>1. l \in Seq(Marks) /\ n \in Nat /\ i \in 1..n /\ i + 1 \in 1..n /\ i # i + 1
    BY DEF GoodList
  <1>2. /\ m \in Seq(Marks) /\ Len(m) = n /\ m[i] = l[i + 1] /\ m[i + 1] = l[i]
        /\ \A j \in 1..n : j # i /\ j # i + 1 => m[j] = l[j]
    <2> DEFINE a == [l EXCEPT ![i] = l[i + 1]]
    <2>1. /\ a \in Seq(Marks) /\ Len(a) = n /\ a[i] = l[i + 1]
          /\ \A j \in 1..n : j # i => a[j] = l[j]
      BY <1>1
    <2>2. m = [a EXCEPT ![i + 1] = l[i]]
      BY DEF Exchange
    <2> HIDE DEF a, m
    <2> QED BY <1>1, <2>1, <2>2
  <1> HIDE DEF m
  <1>3. \A j \in 1..n : \E k \in 1..n : m[j] = l[k]
    BY <1>1, <1>2
  <1>4. \A j \in 1..n : \E k \in 1..n : m[k] = l[j]
    BY <1>1, <1>2
  <1>5. SpotsOf(m) = SpotsOf(l)
    <2>1. SpotsOf(l) = {l[j].spot : j \in 1..n} /\ SpotsOf(m) = {m[j].spot : j \in 1..n}
      BY <1>2 DEF SpotsOf
    <2> HIDE DEF n
    <2>2. ASSUME NEW j \in 1..n
          PROVE  m[j].spot \in {l[k].spot : k \in 1..n} /\ l[j].spot \in {m[k].spot : k \in 1..n}
      <3>1. PICK k \in 1..n : m[j] = l[k]
        BY <1>3
      <3>2. PICK k2 \in 1..n : m[k2] = l[j]
        BY <1>4
      <3>3. m[j].spot = l[k].spot /\ l[j].spot = m[k2].spot
        BY <3>1, <3>2
      <3> QED BY <3>3
    <2> QED BY <2>1, <2>2
  <1>6. OnceSpot(m)
    <2> SUFFICES ASSUME NEW j \in 1..n, NEW k \in 1..n, m[j].spot = m[k].spot PROVE j = k
      BY <1>2 DEF OnceSpot
    <2>1. \A x, y \in 1..n : l[x].spot = l[y].spot => x = y
      BY DEF GoodList, OnceSpot
    <2> HIDE DEF n
    <2> QED BY <1>1, <1>2, <2>1
  <1> QED BY <1>1, <1>2, <1>5, <1>6 DEF GoodList, m

(* A list in another order, with a change noted.                           *)
LEMMA WithListIs ==
  ASSUME NEW b \in Books, NEW l, GoodList(l)
  PROVE  /\ WithList(b, l) \in Books /\ WithList(b, l).list = l
         /\ WithList(b, l).first = b.first /\ WithList(b, l).select = b.select
         /\ WithList(b, l).at = b.at /\ WithList(b, l).changed
         /\ SpotsOf(l) = SpotsOf(b.list) /\ Len(l) = Len(b.list) => AlikeBooks(b, WithList(b, l))
  <1> DEFINE a == [at |-> b.at, list |-> l, first |-> b.first, select |-> b.select,
                   cut |-> b.cut, changed |-> b.changed]
             g == [at |-> b.at, list |-> l, first |-> b.first, select |-> b.select,
                   cut |-> b.cut, changed |-> TRUE]
  <1>1. [b EXCEPT !.list = l] = a
    BY DEF Books
  <1>2. [a EXCEPT !.changed = TRUE] = g
    <2>1. ASSUME NEW c
          PROVE  [a EXCEPT !.changed = c]
                   = [at |-> b.at, list |-> l, first |-> b.first, select |-> b.select,
                      cut |-> b.cut, changed |-> c]
      OBVIOUS
    <2> QED BY <2>1
  <1>3. /\ g \in Books /\ g.at = b.at /\ g.list = l /\ g.first = b.first /\ g.select = b.select
        /\ g.changed
    BY DEF Books, GoodList
  <1> HIDE DEF a, g
  <1>4. WithList(b, l) = g
    BY <1>1, <1>2 DEF WithList
  <1> QED BY <1>3, <1>4 DEF AlikeBooks

LEMMA AlikeTwice ==
  ASSUME NEW a, NEW b, NEW c, AlikeBooks(a, b), AlikeBooks(b, c)
  PROVE  AlikeBooks(a, c)
  BY DEF AlikeBooks

(* Down and up, also with a bookmark that is moved.                        *)
LEMMA MovedIs ==
  ASSUME NEW b \in Books, GoodList(b.list), NEW i \in Int,
         NEW m, m = IF b.cut /\ i >= 1 /\ i <= Len(b.list) - 1
                    THEN WithList(b, Exchange(b.list, i)) ELSE b
  PROVE  AlikeBooks(b, m) /\ m.first = b.first /\ m.select = b.select
  <1>1. CASE b.cut /\ i >= 1 /\ i <= Len(b.list) - 1
    <2>1. i \in 1..Len(b.list) - 1
      BY <1>1 DEF GoodList
    <2>2. m = WithList(b, Exchange(b.list, i))
      BY <1>1
    <2> QED BY <2>1, <2>2, ExchangeIs, WithListIs
  <1>2. CASE ~(b.cut /\ i >= 1 /\ i <= Len(b.list) - 1)
    BY <1>2 DEF AlikeBooks
  <1> QED BY <1>1, <1>2

LEMMA FitsIs ==
  ASSUME NEW b \in Books, NEW m, AlikeBooks(b, m), NEW f \in Nat, NEW s \in Nat,
         f = 0 \/ f + maxY <= Len(b.list)
  PROVE  AlikeBooks(b, ShownFrom(m, f, s)) /\ Fits(ShownFrom(m, f, s))
  <1>1. m \in Books /\ GoodList(m.list)
    BY DEF AlikeBooks
  <1>2. AlikeBooks(m, ShownFrom(m, f, s)) /\ ShownFrom(m, f, s).first = f
    BY <1>1, PlacedIs
  <1>3. AlikeBooks(b, ShownFrom(m, f, s))
    BY <1>2, AlikeTwice
  <1> QED BY <1>2, <1>3 DEF Fits, AlikeBooks

LEMMA BookIs ==
  ASSUME NEW b \in Books, maxY \in BookRows
  PROVE  /\ b.first \in Nat /\ b.select \in Nat /\ Len(b.list) \in Nat
         /\ Total(b) = Len(b.list) /\ Chosen0(b) = b.select + 1
         /\ maxY \in Nat /\ maxY > 0 /\ MaxSelect \in Nat
  BY BookmarksConstants DEF Books, Total, Chosen0

LEMMA DownIs ==
  ASSUME NEW b \in Books, GoodList(b.list), maxY \in BookRows, Fits(b)
  PROVE  AlikeBooks(b, Downwards(b)) /\ Fits(Downwards(b))
  <1> DEFINE i == Chosen0(b)
             m == IF b.cut /\ i < Total(b) THEN WithList(b, Exchange(b.list, i)) ELSE b
  <1>1. /\ b.first \in Nat /\ b.select \in Nat /\ Len(b.list) \in Nat
        /\ Total(b) = Len(b.list) /\ i = b.select + 1 /\ maxY \in Nat /\ maxY > 0
    BY BookIs
  <1>2. AlikeBooks(b, m) /\ m.first = b.first
    <2>1. (b.cut /\ i < Total(b)) <=> (b.cut /\ i >= 1 /\ i <= Len(b.list) - 1)
      BY <1>1
    <2>2. i \in Int
      BY <1>1
    <2> HIDE DEF i
    <2> QED BY <2>1, <2>2, MovedIs
  <1>3. \/ /\ b.first + maxY < Total(b)
           /\ Downwards(b) = ShownFrom(m, b.first + 1, b.select + 1)
        \/ Downwards(b) = ShownFrom(m, b.first, b.select + 1)
        \/ Downwards(b) = m
    BY DEF Downwards
  <1> HIDE DEF m
  <1>4. Fits(m)
    BY <1>2 DEF Fits, AlikeBooks
  <1>5. b.first = 0 \/ b.first + maxY <= Len(b.list)
    BY DEF Fits
  <1>6. b.first + 1 \in Nat /\ b.select + 1 \in Nat
    BY <1>1
  <1>7. b.first + maxY < Total(b) => b.first + 1 + maxY <= Len(b.list)
    BY <1>1
  <1> QED BY <1>1, <1>2, <1>3, <1>4, <1>5, <1>6, <1>7, FitsIs

LEMMA UpIs ==
  ASSUME NEW b \in Books, GoodList(b.list), maxY \in BookRows, Fits(b)
  PROVE  AlikeBooks(b, Upwards(b)) /\ Fits(Upwards(b))
  <1> DEFINE i == Chosen0(b)
             m == IF b.cut /\ i > 1 /\ i <= Total(b)
                  THEN WithList(b, Exchange(b.list, i - 1)) ELSE b
             f == IF b.first > 0 /\ b.select = b.first THEN b.first - 1 ELSE b.first
  <1>1. /\ b.first \in Nat /\ b.select \in Nat /\ Len(b.list) \in Nat
        /\ Total(b) = Len(b.list) /\ i = b.select + 1 /\ maxY \in Nat /\ maxY > 0
    BY BookIs
  <1>2. AlikeBooks(b, m) /\ m.first = b.first
    <2>1. (b.cut /\ i > 1 /\ i <= Total(b)) <=> (b.cut /\ i - 1 >= 1 /\ i - 1 <= Len(b.list) - 1)
      BY <1>1
    <2>2. i - 1 \in Int
      BY <1>1
    <2> HIDE DEF i
    <2> QED BY <2>1, <2>2, MovedIs
  <1>3. \/ b.select # 0 /\ Upwards(b) = ShownFrom(m, f, b.select - 1)
        \/ Upwards(b) = m
    BY DEF Upwards
  <1> HIDE DEF m
  <1>4. Fits(m)
    BY <1>2 DEF Fits, AlikeBooks
  <1>5. f \in Nat /\ (f = 0 \/ f + maxY <= Len(b.list))
    BY <1>1 DEF Fits
  <1>6. b.select # 0 => b.select - 1 \in Nat
    BY <1>1
  <1> HIDE DEF f
  <1> QED BY <1>2, <1>3, <1>4, <1>5, <1>6, FitsIs

(* A page down and up.                                                     *)
LEMMA PagesAre ==
  ASSUME NEW b \in Books, GoodList(b.list), maxY \in BookRows, Fits(b)
  PROVE  /\ AlikeBooks(b, PagedDown(b)) /\ Fits(PagedDown(b))
         /\ AlikeBooks(b, PagedUp(b)) /\ Fits(PagedUp(b))
  <1>1. /\ b.first \in Nat /\ b.select \in Nat /\ Len(b.list) \in Nat
        /\ Total(b) = Len(b.list) /\ maxY \in Nat /\ maxY > 0 /\ AlikeBooks(b, b)
        /\ b.first = 0 \/ b.first + maxY <= Len(b.list)
    BY BookIs, PlacedIs DEF Fits
  <1>2. ASSUME NEW f \in Int, NEW s \in Int, f >= 0, s >= 0, f = 0 \/ f + maxY <= Len(b.list)
        PROVE  AlikeBooks(b, ShownFrom(b, f, s)) /\ Fits(ShownFrom(b, f, s))
    BY <1>1, <1>2, FitsIs
  <1>3. AlikeBooks(b, PagedDown(b)) /\ Fits(PagedDown(b))
    <2> DEFINE t == IF b.select + maxY <= Total(b) THEN b.first + maxY - 1 ELSE Total(b) - 1
    <2>1. \/ PagedDown(b) = b
          \/ /\ b.first + maxY <= Total(b)
             /\ \/ b.select + maxY < Total(b) /\ PagedDown(b) = ShownFrom(b, b.select, b.select + maxY - 1)
                \/ PagedDown(b) = ShownFrom(b, Total(b) - maxY, Total(b) - 1)
                \/ PagedDown(b) = ShownFrom(b, b.first, t)
      <3> HIDE DEF t
      <3>1. ~(b.first + maxY > Total(b)) => b.first + maxY <= Total(b)
        BY <1>1
      <3> QED BY <3>1 DEF PagedDown, t
    <2>2. b.first + maxY <= Total(b) => t \in Int /\ t >= 0
      BY <1>1
    <2> HIDE DEF t
    <2> QED BY <1>1, <1>2, <2>1, <2>2
  <1>4. AlikeBooks(b, PagedUp(b)) /\ Fits(PagedUp(b))
    <2>1. \/ PagedUp(b) = b
          \/ PagedUp(b) = ShownFrom(b, b.first, b.first)
          \/ /\ b.first = b.select /\ ~(b.select <= 1)
             /\ \/ PagedUp(b) = ShownFrom(b, 1, 1)
                \/ /\ ~(b.first - maxY < 1)
                   /\ PagedUp(b) = ShownFrom(b, b.first - maxY + 1, b.first - maxY + 1)
      BY DEF PagedUp
    <2> QED BY <1>1, <1>2, <2>1
  <1> QED BY <1>3, <1>4
-----------------------------------------------------------------------------
(* The steps of the window.                                                *)

(* The window is left, for good or to be saved.                            *)
LEMMA LeaveIs ==
  ASSUME NEW b \in Books
  PROVE  /\ Leave(b) \in Books /\ Leave(b).list = b.list
         /\ Leave(b).at = "unlink" \/ Leave(b).at = "closed"
  <1> DEFINE v == IF b.changed THEN "unlink" ELSE "closed"
             g == [at |-> v, list |-> b.list, first |-> b.first, select |-> b.select,
                   cut |-> b.cut, changed |-> b.changed]
  <1>1. v = "unlink" \/ v = "closed"
    OBVIOUS
  <1> HIDE DEF v
  <1>2. [b EXCEPT !.at = v] = g
    BY DEF Books
  <1>3. g \in Books /\ g.list = b.list /\ g.at = v
    BY <1>1 DEF Books
  <1>4. Leave(b) = [b EXCEPT !.at = v]
    BY DEF Leave, v
  <1> QED BY <1>1, <1>2, <1>3, <1>4

(* A bookmark at the end of the list.                                      *)
LEMMA AddedIs ==
  ASSUME NEW l, GoodList(l), NEW spot \in Spots \ UpSpots, spot \notin SpotsOf(l),
         NEW e \in Marks, e.spot = spot
  PROVE  GoodList(Append(l, e)) /\ SpotsOf(l) \subseteq SpotsOf(Append(l, e))
  <1> DEFINE n == Len(l)
             l2 == Append(l, e)
  <1>2. /\ l \in Seq(Marks) /\ n \in Nat
        /\ l2 \in Seq(Marks) /\ Len(l2) = n + 1 /\ l2[n + 1] = e
        /\ \A i \in 1..n : l2[i] = l[i]
    BY AppendProperties DEF GoodList
  <1> HIDE DEF l2
  <1>3. \A i \in 1..n + 1 : i = n + 1 \/ i \in 1..n
    BY <1>2
  <1>4. \A i \in 1..n : i \in 1..n + 1 /\ i # n + 1 /\ l[i].spot # spot
    BY <1>2 DEF SpotsOf
  <1>5. n + 1 \in 1..n + 1
    BY <1>2
  <1>6. SpotsOf(l2) = SpotsOf(l) \cup {spot}
    <2>1. ASSUME NEW x \in SpotsOf(l2) PROVE x \in SpotsOf(l) \cup {spot}
      <3>1. PICK i \in 1..n + 1 : x = l2[i].spot
        BY <1>2 DEF SpotsOf
      <3> QED BY <1>2, <1>3, <3>1 DEF SpotsOf
    <2>2. ASSUME NEW x \in SpotsOf(l) PROVE x \in SpotsOf(l2)
      <3>1. PICK i \in 1..n : x = l[i].spot
        BY DEF SpotsOf
      <3> QED BY <1>2, <1>4, <3>1 DEF SpotsOf
    <2>3. spot \in SpotsOf(l2)
      BY <1>2, <1>5 DEF SpotsOf
    <2> QED BY <2>1, <2>2, <2>3
  <1>7. OnceSpot(l2)
    <2> SUFFICES ASSUME NEW i \in 1..n + 1, NEW j \in 1..n + 1, l2[i].spot = l2[j].spot
                 PROVE  i = j
      BY <1>2 DEF OnceSpot
    <2>1. \A x, y \in 1..n : l[x].spot = l[y].spot => x = y
      BY DEF GoodList, OnceSpot
    <2> HIDE DEF n
    <2> QED BY <2>1, <1>2, <1>3, <1>4
  <1> QED BY <1>2, <1>6, <1>7 DEF GoodList, l2

(* A bookmark is marked to be deleted, or not any more.                    *)
LEMMA MarkedIs ==
  ASSUME NEW l, GoodList(l), NEW c \in 1..Len(l), NEW del \in BOOLEAN,
         NEW l2, l2 = [l EXCEPT ![c].del = del]
  PROVE  GoodList(l2) /\ SpotsOf(l2) = SpotsOf(l) /\ Len(l2) = Len(l)
  <1> DEFINE n == Len(l)
             e == [l[c] EXCEPT !.del = del]
  <1>1. /\ l \in Seq(Marks) /\ n \in Nat /\ c \in 1..n /\ l[c] \in Marks
    BY DEF GoodList
  <1>2. e = [spot |-> l[c].spot, del |-> del]
    BY <1>1 DEF Marks
  <1>3. e \in Marks /\ e.spot = l[c].spot
    BY <1>1, <1>2 DEF Marks
  <1>4. l2 = [l EXCEPT ![c] = e]
    BY <1>1
  <1> HIDE DEF e
  <1>5. l2 \in Seq(Marks) /\ Len(l2) = n /\ \A i \in 1..n : l2[i] = IF i = c THEN e ELSE l[i]
    BY <1>1, <1>3, <1>4
  <1>6. \A i \in 1..n : l2[i].spot = l[i].spot
    BY <1>3, <1>5
  <1>7. ASSUME NEW x
        PROVE  x \in SpotsOf(l2) <=> x \in SpotsOf(l)
    BY <1>5, <1>6 DEF SpotsOf
  <1>8. OnceSpot(l2)
    BY <1>5, <1>6 DEF GoodList, OnceSpot
  <1>9. SpotsOf(l2) = SpotsOf(l)
    BY <1>7
  <1> QED BY <1>5, <1>8, <1>9 DEF GoodList

(* A key of the open window: nothing but the window changes.               *)
LEMMA WindowStep ==
  ASSUME BookInv, NEW b \in Books, Window(b), GoodList(b.list),
         book.at # "write", b.at # "write", b.at = "open" => Fits(b),
         b.at # "crash",
         ~torn /\ ~unread /\ b.at # "closed" => wanted \subseteq SpotsOf(b.list)
  PROVE  BookInv'
  BY DEF BookInv, Window, Books, Fits, Elems, Once, GoodList, OnceSpot, SpotsOf, LiveOf

LEMMA AlikeStep ==
  ASSUME BookInv, IsOpen, NEW b, Window(b), AlikeBooks(book, b), Fits(b)
  PROVE  BookInv'
  BY WindowStep DEF BookInv, IsOpen, AlikeBooks

LEMMA LeaveStep ==
  ASSUME BookInv, IsOpen, NEW b \in Books, GoodList(b.list), Window(Leave(b)),
         SpotsOf(book.list) \subseteq SpotsOf(b.list)
  PROVE  BookInv'
  <1>1. /\ Leave(b) \in Books /\ Leave(b).list = b.list
        /\ Leave(b).at = "unlink" \/ Leave(b).at = "closed"
    BY LeaveIs
  <1> QED BY <1>1, WindowStep DEF BookInv, IsOpen

LEMMA PlacedAt ==
  ASSUME NEW b \in Books, NEW v
  PROVE  [b EXCEPT !.at = v] =
           [at |-> v, list |-> b.list, first |-> b.first,
            select |-> b.select, cut |-> b.cut, changed |-> b.changed]
  BY DEF Books

LEMMA ClosedIs ==
  /\ Closed0 \in Books /\ GoodList(Closed0.list) /\ Closed0.at = "closed"
  <1>1. Closed0 \in Books /\ Closed0.list = <<>> /\ Closed0.at = "closed"
    BY DEF Closed0, Books
  <1>2. GoodList(<<>>)
    BY DEF GoodList, OnceSpot, SpotsOf
  <1> QED BY <1>1, <1>2

(* The window as it is opened.                                             *)
LEMMA OpenedIs ==
  ASSUME NEW l
  PROVE  [Closed0 EXCEPT !.at = "open", !.list = l]
           = [at |-> "open", list |-> l, first |-> 0, select |-> 0,
              cut |-> FALSE, changed |-> FALSE]
  <1>1. ASSUME NEW x, NEW y
        PROVE  [[at |-> "closed", list |-> x, first |-> 0, select |-> 0,
                 cut |-> y, changed |-> y] EXCEPT !.at = "open", !.list = l]
                 = [at |-> "open", list |-> l, first |-> 0, select |-> 0,
                    cut |-> y, changed |-> y]
    <2>1. [[at |-> "closed", list |-> x, first |-> 0, select |-> 0,
            cut |-> y, changed |-> y] EXCEPT !.at = "open"]
            = [at |-> "open", list |-> x, first |-> 0, select |-> 0,
               cut |-> y, changed |-> y]
      OBVIOUS
    <2>2. [[at |-> "open", list |-> x, first |-> 0, select |-> 0,
            cut |-> y, changed |-> y] EXCEPT !.list = l]
            = [at |-> "open", list |-> l, first |-> 0, select |-> 0,
               cut |-> y, changed |-> y]
      OBVIOUS
    <2> QED BY <2>1, <2>2
  <1> QED BY <1>1 DEF Closed0

(* The list of what is read from a file.                                   *)
LEMMA ListOfIs ==
  ASSUME NEW file \in Seq(Spots), Once(file), Elems(file) \subseteq Spots \ UpSpots
  PROVE  GoodList(ListOf(file)) /\ SpotsOf(ListOf(file)) = Elems(file)
  <1> DEFINE n == Len(file)
             l == ListOf(file)
  <1>1. n \in Nat /\ DOMAIN file = 1..n /\ \A i \in 1..n : file[i] \in Spots
    OBVIOUS
  <1>2. l \in Seq(Marks) /\ Len(l) = n /\ \A i \in 1..n : l[i].spot = file[i]
    BY <1>1 DEF Marks, ListOf
  <1> HIDE DEF l
  <1>3. SpotsOf(l) = Elems(file) /\ OnceSpot(l)
    BY <1>2 DEF SpotsOf, Elems, OnceSpot, Once
  <1>4. GoodList(l)
    BY <1>2, <1>3 DEF GoodList
  <1> QED BY <1>3, <1>4 DEF l

LEMMA InitBook == BookmarksInit => BookInv
  <1> SUFFICES ASSUME BookmarksInit PROVE BookInv
    OBVIOUS
  <1>1. Elems(<<>>) = {} /\ Once(<<>>)
    BY DEF Elems, Once
  <1>2. /\ marksFile = <<>> /\ book = Closed0 /\ wanted = {}
        /\ torn = FALSE /\ grown = FALSE /\ unread = FALSE
    BY DEF BookmarksInit
  <1>7. maxY \in BookRows
    <2>1. \E rows \in BookRows : TRUE
      BY BookmarksConstants
    <2> QED BY <2>1, Zenon DEF BookmarksInit
  <1>3. <<>> \in Seq(Spots)
    OBVIOUS
  <1>6. torn \in BOOLEAN /\ grown \in BOOLEAN /\ unread \in BOOLEAN
    BY <1>2, Zenon
  <1>4. book \in Books /\ GoodList(book.list) /\ book.at = "closed"
    BY <1>2, ClosedIs
  <1>5. marksFile \in Seq(Spots) /\ Once(marksFile) /\ Elems(marksFile) = {}
    BY <1>1, <1>2, <1>3
  <1> QED BY <1>2, <1>4, <1>5, <1>6, <1>7 DEF BookInv

LEMMA StepBook == BookInv /\ [BookmarksNext]_bookmarkVars => BookInv'
  <1> SUFFICES ASSUME BookInv, [BookmarksNext]_bookmarkVars PROVE BookInv'
    OBVIOUS
  <1>0. /\ marksFile \in Seq(Spots) /\ Once(marksFile) /\ Elems(marksFile) \subseteq Spots \ UpSpots
        /\ book \in Books /\ GoodList(book.list) /\ maxY \in BookRows
        /\ wanted \subseteq Spots /\ torn \in BOOLEAN /\ unread \in BOOLEAN /\ grown \in BOOLEAN
        /\ IsOpen => Fits(book)
    BY DEF BookInv, IsOpen
  <1>1. CASE OpenBookmarks
    <2>1. PICK fails \in BOOLEAN :
            /\ book' = [Closed0 EXCEPT !.at = "open",
                         !.list = ListOf(IF fails THEN <<>> ELSE marksFile)]
            /\ unread' = (fails /\ marksFile # <<>>)
      BY <1>1 DEF OpenBookmarks
    <2>2. maxY' \in BookRows /\ grown' = FALSE /\ UNCHANGED <<marksFile, wanted, torn>>
      BY <1>1 DEF OpenBookmarks
    <2>3. book.at = "closed"
      BY <1>1 DEF OpenBookmarks
    <2> DEFINE file == IF fails THEN <<>> ELSE marksFile
               g == [at |-> "open", list |-> ListOf(file), first |-> 0, select |-> 0,
                     cut |-> FALSE, changed |-> FALSE]
    <2>4. book' = g
      BY <2>1, OpenedIs
    <2>5. /\ file \in Seq(Spots) /\ Once(file) /\ Elems(file) \subseteq Spots \ UpSpots
          /\ file = marksFile \/ unread'
      <3>1. Once(<<>>) /\ Elems(<<>>) = {} /\ <<>> \in Seq(Spots)
        BY DEF Once, Elems
      <3>2. CASE fails
        BY <2>1, <3>1, <3>2
      <3>3. CASE ~fails
        BY <1>0, <3>3
      <3> QED BY <3>2, <3>3
    <2> HIDE DEF file
    <2>6. GoodList(ListOf(file)) /\ SpotsOf(ListOf(file)) = Elems(file)
      BY <2>5, ListOfIs
    <2>7. book' \in Books /\ book'.at = "open" /\ book'.list = ListOf(file) /\ book'.first = 0
      BY <2>4, <2>6 DEF Books, GoodList
    <2>8. unread' \in BOOLEAN /\ grown' \in BOOLEAN
      BY <2>1, <2>2, Zenon
    <2>9. ~torn /\ ~unread' => wanted \subseteq SpotsOf(book'.list)
      BY <2>3, <2>5, <2>6, <2>7 DEF BookInv
    <2> HIDE DEF g
    <2>10. GoodList(book.list)' /\ Fits(book)' /\ SpotsOf(book.list)' = SpotsOf(book'.list)
      BY <2>6, <2>7 DEF GoodList, OnceSpot, SpotsOf, Fits
    <2> QED BY <2>2, <2>3, <2>7, <2>8, <2>9, <2>10 DEF BookInv, Elems, Once
  <1>2. CASE QuitBookmarks
    BY <1>0, <1>2, LeaveStep DEF QuitBookmarks
  <1>3. CASE Cut
    <2> DEFINE c == ~book.cut
               g == [at |-> book.at, list |-> book.list, first |-> book.first,
                     select |-> book.select, cut |-> c, changed |-> book.changed]
    <2>1. c \in BOOLEAN
      OBVIOUS
    <2>2. IsOpen /\ Window([book EXCEPT !.cut = c])
      BY <1>3 DEF Cut
    <2> HIDE DEF c
    <2>3. [book EXCEPT !.cut = c] = g
      BY <1>0 DEF Books
    <2>4. g \in Books /\ g.list = book.list /\ g.first = book.first /\ g.at = book.at
      BY <1>0, <2>1 DEF Books
    <2> HIDE DEF g
    <2>5. AlikeBooks(book, g) /\ Fits(g)
      BY <1>0, <2>2, <2>4 DEF AlikeBooks, Fits
    <2> QED BY <2>2, <2>3, <2>5, AlikeStep
  <1>4. CASE AddBookmark
    <2>1. PICK spot \in Spots \ UpSpots :
            Window(Leave(IF \E i \in DOMAIN book.list : book.list[i].spot = spot THEN book
                         ELSE WithList(book, Append(book.list, [spot |-> spot, del |-> FALSE]))))
      BY <1>4 DEF AddBookmark
    <2> DEFINE e == [spot |-> spot, del |-> FALSE]
               l == Append(book.list, e)
    <2>2. IsOpen /\ (\E i \in DOMAIN book.list : book.list[i].spot = spot) <=> spot \in SpotsOf(book.list)
      BY <1>0, <1>4 DEF AddBookmark, SpotsOf, GoodList
    <2>3. CASE spot \in SpotsOf(book.list)
      BY <1>0, <1>4, <2>1, <2>2, <2>3, LeaveStep DEF AddBookmark
    <2>4. CASE spot \notin SpotsOf(book.list)
      <3>1. GoodList(l) /\ SpotsOf(book.list) \subseteq SpotsOf(l)
        <4>1. e \in Marks /\ e.spot = spot
          BY DEF Marks
        <4> HIDE DEF e
        <4> QED BY <1>0, <2>4, <4>1, AddedIs
      <3>2. IsOpen /\ Window(Leave(WithList(book, l)))
        BY <1>4, <2>1, <2>2, <2>4 DEF AddBookmark
      <3> HIDE DEF l
      <3>3. WithList(book, l) \in Books /\ WithList(book, l).list = l
        BY <1>0, <3>1, WithListIs
      <3> QED BY <3>1, <3>2, <3>3, LeaveStep
    <2> QED BY <2>3, <2>4
  <1>5. CASE DownBookmark
    BY <1>0, <1>5, DownIs, AlikeStep DEF DownBookmark
  <1>6. CASE UpBookmark
    BY <1>0, <1>6, UpIs, AlikeStep DEF UpBookmark
  <1>7. CASE MarkDeleted
    <2>1. PICK del \in BOOLEAN :
            Window(Downwards(WithList(book, [book.list EXCEPT ![Chosen0(book)].del = del])))
      BY <1>7 DEF MarkDeleted
    <2> DEFINE l == [book.list EXCEPT ![Chosen0(book)].del = del]
               m == WithList(book, l)
    <2>2. IsOpen /\ Chosen0(book) \in 1..Len(book.list)
      BY <1>0, <1>7, BookIs DEF MarkDeleted, Valid
    <2>3. GoodList(l) /\ SpotsOf(l) = SpotsOf(book.list) /\ Len(l) = Len(book.list)
      BY <1>0, <2>2, MarkedIs
    <2>4. Window(Downwards(m))
      BY <2>1
    <2> HIDE DEF l
    <2>5. AlikeBooks(book, m) /\ m.first = book.first
      BY <1>0, <2>3, WithListIs
    <2> HIDE DEF m
    <2>6. m \in Books /\ GoodList(m.list) /\ Fits(m)
      BY <1>0, <2>2, <2>5 DEF AlikeBooks, Fits
    <2>7. AlikeBooks(book, Downwards(m)) /\ Fits(Downwards(m))
      BY <1>0, <2>5, <2>6, DownIs, AlikeTwice
    <2> QED BY <2>2, <2>4, <2>7, AlikeStep
  <1>8. CASE PageDownBookmark
    BY <1>0, <1>8, PagesAre, AlikeStep DEF PageDownBookmark
  <1>9. CASE PageUpBookmark
    BY <1>0, <1>9, PagesAre, AlikeStep DEF PageUpBookmark
  <1>10. CASE UseBookmark
    BY <1>0, <1>10, LeaveStep DEF UseBookmark
  <1>11. CASE CrashBookmarks
    BY <1>0, <1>11, ClosedIs, WindowStep DEF CrashBookmarks, IsOpen
  <1>16. CASE ResizeBookmark
    <2>1. PICK rows \in BookRows \ {maxY} :
            /\ maxY' = rows
            /\ grown' = (grown \/ (rows > maxY /\ book.first > 0))
            /\ book' = [book EXCEPT !.at =
                          IF LastPainted(book, rows) <= Total(book) THEN "open" ELSE "crash"]
      BY <1>16 DEF ResizeBookmark
    <2>2. IsOpen /\ UNCHANGED <<marksFile, unread, wanted, torn>>
      BY <1>16 DEF ResizeBookmark
    <2> DEFINE inside == LastPainted(book, rows) <= Total(book)
               v == IF inside THEN "open" ELSE "crash"
    <2>3. book' \in Books /\ book'.at = v /\ book'.list = book.list /\ book'.first = book.first
      <3>1. v = "open" \/ v = "crash"
        OBVIOUS
      <3> HIDE DEF v
      <3> DEFINE g == [at |-> v, list |-> book.list, first |-> book.first,
                       select |-> book.select, cut |-> book.cut, changed |-> book.changed]
      <3>2. [book EXCEPT !.at = v] = g
        BY <1>0, PlacedAt
      <3>3. g \in Books /\ g.at = v /\ g.list = book.list /\ g.first = book.first
        BY <1>0, <3>1 DEF Books
      <3> HIDE DEF g
      <3>4. book' = [book EXCEPT !.at = v]
        BY <2>1 DEF v
      <3> QED BY <3>2, <3>3, <3>4
    <2>4. /\ book.first \in Nat /\ Len(book.list) \in Nat /\ Total(book) = Len(book.list)
          /\ maxY \in Nat /\ rows \in Nat
          /\ book.first = 0 \/ book.first + maxY <= Len(book.list)
      BY <1>0, <2>2, BookIs, BookmarksConstants DEF Fits
    <2>5. inside => book.first = 0 \/ book.first + rows <= Len(book.list)
      BY <2>4 DEF LastPainted
    <2>6. ~inside => rows > maxY /\ book.first > 0
      BY <2>4 DEF LastPainted
    <2> HIDE DEF inside
    <2>7. grown' \in BOOLEAN /\ (~inside => grown')
      BY <2>1, <2>6, Zenon
    <2>8. book'.at = "open" => Fits(book)'
      BY <2>1, <2>3, <2>5 DEF Fits
    <2>9. GoodList(book.list)' /\ SpotsOf(book.list)' = SpotsOf(book.list)
      BY <1>0, <2>3 DEF GoodList, OnceSpot, SpotsOf
    <2>10. book'.at = "open" \/ (book'.at = "crash" /\ grown')
      BY <2>3, <2>7
    <2>11. maxY' \in BookRows
      BY <2>1
    <2> QED BY <1>0, <2>2, <2>3, <2>7, <2>8, <2>9, <2>10, <2>11
            DEF BookInv, IsOpen, Elems, Once
  <1>12. CASE UnlinkBookmarks
    <2> DEFINE l == book.list
               g == [at |-> "write", list |-> book.list, first |-> book.first,
                     select |-> book.select, cut |-> book.cut, changed |-> book.changed]
               gone == {l[i].spot : i \in {j \in DOMAIN l : l[j].del}}
    <2>1. /\ book.at = "unlink" /\ marksFile' = <<>> /\ torn' = (torn \/ unread)
          /\ UNCHANGED <<maxY, grown, unread>>
          /\ book' = [book EXCEPT !.at = "write"]
          /\ wanted' = (wanted \cup {l[i].spot : i \in DOMAIN l}) \ gone
      BY <1>12 DEF UnlinkBookmarks
    <2>2. book' = g
      BY <1>0, <2>1 DEF Books
    <2>3. g \in Books /\ g.at = "write" /\ g.list = l
      BY <1>0 DEF Books
    <2>4. DOMAIN l = 1..Len(l) /\ \A i, j \in 1..Len(l) : l[i].spot = l[j].spot => i = j
      BY <1>0 DEF GoodList, OnceSpot
    <2>5. wanted' = (wanted \cup SpotsOf(l)) \ gone
      BY <2>1, <2>4 DEF SpotsOf
    <2>6. \A i \in 1..Len(l) : l[i].spot \in gone <=> l[i].del
      BY <2>4
    <2>7. SpotsOf(l) \ gone = LiveOf(l)
      BY <2>6 DEF SpotsOf, LiveOf
    <2>8. LiveOf(l) \subseteq wanted' /\ (~torn' => wanted' = LiveOf(l))
      <3>1. ~torn' => ~torn /\ ~unread
        BY <1>0, <2>1
      <3> QED BY <2>1, <2>5, <2>7, <3>1 DEF BookInv
    <2>13. torn' \in BOOLEAN
      BY <1>0, <2>1, Zenon
    <2>9. wanted' \subseteq Spots
      BY <1>0, <2>5 DEF GoodList
    <2>10. Elems(<<>>) = {} /\ Once(<<>>)
      BY DEF Elems, Once
    <2> HIDE DEF g, l
    <2>11. book' \in Books /\ book'.at = "write" /\ book'.list = l /\ GoodList(l)
      BY <1>0, <2>2, <2>3 DEF l
    <2>12. /\ marksFile' \in Seq(Spots) /\ Once(marksFile)' /\ Elems(marksFile)' = {}
           /\ GoodList(book.list)' /\ LiveOf(book.list)' = LiveOf(l)
      BY <1>0, <2>1, <2>10, <2>11 DEF Elems, Once, GoodList, OnceSpot, SpotsOf, LiveOf
    <2> QED BY <1>0, <2>1, <2>8, <2>9, <2>11, <2>12, <2>13 DEF BookInv
  <1>13. CASE WriteBookmarks
    <2> DEFINE k == Kept(book.list)
    <2>1. /\ book.at = "write" /\ marksFile' = k /\ book' = Closed0
          /\ UNCHANGED <<maxY, grown, unread, wanted, torn>>
      BY <1>13 DEF WriteBookmarks
    <2>2. k \in Seq(Spots) /\ Once(k) /\ Elems(k) = LiveOf(book.list) /\ Elems(k) \subseteq Spots \ UpSpots
      BY <1>0, KeptIs DEF GoodList
    <2>3. Elems(k) \subseteq wanted /\ (~torn => Elems(k) = wanted)
      BY <2>1, <2>2 DEF BookInv
    <2> HIDE DEF k
    <2> QED BY <1>0, <2>1, <2>2, <2>3, ClosedIs
            DEF BookInv, Elems, Once, GoodList, OnceSpot, SpotsOf, LiveOf
  <1>14. CASE KillSmbc
    BY <1>0, <1>14, ClosedIs, WindowStep DEF KillSmbc
  <1>17. CASE WritePart
    <2> DEFINE k == Kept(book.list)
    <2>1. PICK n \in 0..(Len(k) - 1) : marksFile' = SubSeq(k, 1, n)
      BY <1>17 DEF WritePart
    <2>2. /\ book.at = "write" /\ book' = Closed0 /\ torn' = TRUE
          /\ UNCHANGED <<maxY, grown, unread, wanted>>
      BY <1>17 DEF WritePart
    <2>3. k \in Seq(Spots) /\ Once(k) /\ Elems(k) = LiveOf(book.list) /\ Elems(k) \subseteq Spots \ UpSpots
      BY <1>0, KeptIs DEF GoodList
    <2> HIDE DEF k
    <2>4. Len(k) \in Nat /\ n \in 0..Len(k)
      BY <2>3
    <2>5. SubSeq(k, 1, n) \in Seq(Spots) /\ Once(SubSeq(k, 1, n)) /\ Elems(SubSeq(k, 1, n)) \subseteq Elems(k)
      <3>1. /\ SubSeq(k, 1, n) \in Seq(Spots) /\ Len(SubSeq(k, 1, n)) = n
            /\ \A i \in 1..n : i \in 1..Len(k) /\ SubSeq(k, 1, n)[i] = k[i]
        BY <2>3, <2>4
      <3> DEFINE p == SubSeq(k, 1, n)
      <3> HIDE DEF p
      <3>2. /\ p \in Seq(Spots) /\ Len(p) = n /\ \A i \in 1..n : i \in 1..Len(k) /\ p[i] = k[i]
        BY <3>1 DEF p
      <3>3. Once(p) /\ Elems(p) \subseteq Elems(k)
        BY <2>3, <3>2 DEF Once, Elems
      <3> QED BY <3>2, <3>3 DEF p
    <2>6. Elems(k) \subseteq wanted
      BY <2>2, <2>3 DEF BookInv
    <2>7. torn' \in BOOLEAN /\ torn'
      BY <2>2, Zenon
    <2>8. marksFile' \in Seq(Spots) /\ Once(marksFile)' /\ Elems(marksFile)' \subseteq wanted
          /\ Elems(marksFile)' \subseteq Spots \ UpSpots
      BY <2>1, <2>3, <2>5, <2>6 DEF Once, Elems
    <2> QED BY <1>0, <2>2, <2>7, <2>8, ClosedIs
            DEF BookInv, GoodList, OnceSpot, SpotsOf, LiveOf
  <1>15. CASE UNCHANGED bookmarkVars
    BY <1>15 DEF bookmarkVars, BookInv, Fits, Elems, Once, GoodList, OnceSpot, SpotsOf, LiveOf
  <1> QED
    BY <1>1, <1>2, <1>3, <1>4, <1>5, <1>6, <1>7, <1>8, <1>9, <1>10, <1>11, <1>12, <1>13,
       <1>14, <1>15, <1>16, <1>17 DEF BookmarksNext

(* Whatever is moved, marked and paged through, and whatever size the      *)
(* terminal gets, the rows that are painted are rows of the list           *)
(* (RpaintList in Rbookmark asks for no end), unless the window was made   *)
(* higher while the list was scrolled.                                     *)
THEOREM BookmarksPainted ==
  BookmarksInit /\ [][BookmarksNext]_bookmarkVars => []PaintsInside
  <1>1. BookInv => PaintsInside
    <2> SUFFICES ASSUME BookInv, book.at \in {"open", "crash"}, ~grown
                 PROVE  LastPainted(book, maxY) <= Total(book)
      BY DEF PaintsInside
    <2>1. /\ book.first \in Nat /\ Len(book.list) \in Nat /\ Total(book) = Len(book.list)
          /\ maxY \in Nat /\ (book.first = 0 \/ book.first + maxY <= Len(book.list))
      BY BookIs DEF BookInv, Fits
    <2> QED BY <2>1 DEF LastPainted
  <1> QED BY <1>1, InitBook, StepBook, PTL

(* The file has only bookmarks that were added and not deleted, each once; *)
(* it has all of them, however often smbc is started, left and killed,     *)
(* unless a file was removed of which not all was written again            *)
(* (RopenBookmark, RsaveBookmark).                                         *)
THEOREM BookmarksAreKept ==
  BookmarksInit /\ [][BookmarksNext]_bookmarkVars => []BookmarksKept
  <1>1. BookInv => BookmarksKept
    <2> SUFFICES ASSUME BookInv
                 PROVE  /\ InFile \subseteq wanted /\ Cardinality(InFile) = Len(marksFile)
                        /\ ~torn /\ book.at # "write" => InFile = wanted
      BY DEF BookmarksKept
    <2>1. /\ marksFile \in Seq(Spots) /\ Once(marksFile) /\ Elems(marksFile) \subseteq wanted
          /\ ~torn /\ book.at # "write" => Elems(marksFile) = wanted
      BY DEF BookInv
    <2>2. InFile = Elems(marksFile)
      BY <2>1 DEF InFile, Elems
    <2>3. Cardinality(Elems(marksFile)) = Len(marksFile)
      BY <2>1, OnceCounts
    <2> QED BY <2>1, <2>2, <2>3
  <1> QED BY <1>1, InitBook, StepBook, PTL
-----------------------------------------------------------------------------
(* Mailbox: what is written is shown.                                      *)

(* All of a message was shown, or there is a reason why not.               *)
Excused(w) ==
  \/ letter[w].pc = "closed" /\ mailShown[w] = letter[w].written
  \/ w \in mailRead \cup blind

ShownWritten == \A w \in Writers : mailShown[w] <= letter[w].written

(* Who was not robbed of a name finds under each name he is still to look  *)
(* at a message, and the one he has opened under its name until he removes *)
(* it, after it was shown.                                                 *)
NameHolds(r) ==
  /\ reader[r].pc # "idle" => \A n \in reader[r].todo : dir[n] # NoMessage
  /\ reader[r].pc \in {"read", "unlink"} => reader[r].number \notin reader[r].todo
  /\ reader[r].pc \in {"read", "unlink"} /\ reader[r].message # NoMessage =>
       reader[r].message = dir[reader[r].number]
  /\ reader[r].pc = "unlink" /\ reader[r].message # NoMessage => Excused(reader[r].message)

NamesHold == \A r \in Readers : r \notin robbed => NameHolds(r)

(* Only a message that is there is read.                                   *)
ReadsMessages == \A r \in Readers : reader[r].pc = "read" => reader[r].message # NoMessage

MailInv == MailTypeOK /\ ShownWritten /\ NamesHold /\ ReadsMessages /\ MailShown

LEMMA InitMail == MailInit => MailInv
  <1> SUFFICES ASSUME MailInit PROVE MailInv
    OBVIOUS
  <1>1. MailTypeOK
    BY MailConstants DEF MailInit, MailTypeOK, Numbers, AtRestReader
  <1>2. ShownWritten /\ MailShown
    <2>1. \A w \in Writers : mailShown[w] = 0 /\ letter[w].written = 0 /\ letter[w].pc = "sent"
      BY DEF MailInit
    <2> QED BY <2>1 DEF ShownWritten, MailShown
  <1>3. NamesHold /\ ReadsMessages
    BY DEF MailInit, NamesHold, NameHolds, ReadsMessages, AtRestReader
  <1> QED BY <1>1, <1>2, <1>3 DEF MailInv

LEMMA ReaderType ==
  ASSUME MailInv, NEW r \in Readers
  PROVE  /\ reader[r] \in [pc: {"idle", "scan", "read", "unlink"},
                           todo: SUBSET Numbers, found: BOOLEAN,
                           number: Numbers, message: Writers \cup {NoMessage}]
         /\ \A x : [reader EXCEPT ![r] = x][r] = x
         /\ \A x : \A o \in Readers : o # r => [reader EXCEPT ![r] = x][o] = reader[o]
  BY DEF MailInv, MailTypeOK

LEMMA CreateStep ==
  ASSUME MailInv, NEW w \in Writers, CreateMessage(w)
  PROVE  MailInv'
  <1> DEFINE n == letter[w].number
  <1> USE DEF MailInv
  <1>0. n \in Numbers
    BY DEF MailTypeOK
  <1>1. CASE dir[n] = NoMessage
    <2>1. /\ letter[w].pc = "sent" /\ dir' = [dir EXCEPT ![n] = w]
          /\ letter' = [letter EXCEPT ![w].pc = "write"]
          /\ UNCHANGED <<reader, mailShown, mailRead, robbed, blind>>
      BY <1>1 DEF CreateMessage
    <2> HIDE DEF n
    <2>2. \A k \in Numbers : dir'[k] = dir[k] \/ (dir[k] = NoMessage /\ dir'[k] = w)
      BY <1>0, <1>1, <2>1 DEF MailTypeOK
    <2>3. \A v \in Writers : v # w => letter'[v] = letter[v]
      BY <2>1 DEF MailTypeOK
    <2>4. /\ letter'[w].pc = "write" /\ letter'[w].written = letter[w].written
          /\ letter[w].pc # "closed"
      BY <2>1 DEF MailTypeOK
    <2>5. MailTypeOK'
      BY <1>0, <2>1 DEF MailTypeOK
    <2>6. ShownWritten'
      BY <2>1, <2>3, <2>4 DEF ShownWritten
    <2>7. \A k \in Numbers : dir[k] # NoMessage => dir'[k] = dir[k]
      BY <2>2
    <2>8. ASSUME NEW r \in Readers PROVE reader[r].todo \subseteq Numbers /\ reader[r].number \in Numbers
      BY DEF MailTypeOK
    <2>11. \A v \in Writers : Excused(v) => Excused(v)'
      BY <2>1, <2>3, <2>4 DEF Excused
    <2>12. ReadsMessages'
      BY <2>1 DEF ReadsMessages
    <2>9. NamesHold'
      <3> SUFFICES ASSUME NEW r \in Readers, r \notin robbed, NameHolds(r) PROVE NameHolds(r)'
        BY <2>1 DEF NamesHold
      <3>1. reader[r].message = NoMessage \/ reader[r].message \in Writers
        BY ReaderType
      <3> QED BY <2>1, <2>7, <2>8, <2>11, <3>1 DEF NameHolds
    <2>10. MailShown'
      <3>1. ASSUME NEW v \in Writers, v # w, letter'[v].pc # "sent", \A k \in Numbers : dir'[k] # v
            PROVE  Excused(v)'
        <4>1. letter[v].pc # "sent" /\ \A k \in Numbers : dir[k] # v
          BY <2>2, <2>3, <3>1, MailConstants
        <4> QED BY <2>11, <4>1 DEF MailShown, Excused
      <3>2. dir'[n] = w
        BY <1>0, <2>1 DEF MailTypeOK
      <3> QED BY <1>0, <2>1, <3>1, <3>2 DEF MailShown, Excused
    <2> QED BY <2>5, <2>6, <2>9, <2>10, <2>12
  <1>2. CASE dir[n] # NoMessage
    <2>1. /\ n < MaxFile /\ letter' = [letter EXCEPT ![w].number = n + 1]
          /\ UNCHANGED <<dir, reader, mailShown, mailRead, robbed, blind>>
      BY <1>2 DEF CreateMessage
    <2>2. n + 1 \in Numbers
      BY <1>0, <2>1, MailConstants DEF Numbers
    <2> HIDE DEF n
    <2>3. MailTypeOK'
      BY <2>1, <2>2 DEF MailTypeOK
    <2>4. \A v \in Writers : letter'[v].pc = letter[v].pc /\ letter'[v].written = letter[v].written
      BY <2>1 DEF MailTypeOK
    <2> QED BY <2>1, <2>3, <2>4
            DEF ShownWritten, NamesHold, NameHolds, ReadsMessages, MailShown, Excused
  <1> QED BY <1>1, <1>2

LEMMA WriteStep ==
  ASSUME MailInv, NEW w \in Writers, WriteMessage(w)
  PROVE  MailInv'
  <1> USE DEF MailInv
  <1>1. /\ letter[w].pc = "write"
        /\ UNCHANGED <<dir, reader, mailShown, mailRead, robbed, blind>>
    BY DEF WriteMessage
  <1>2. letter[w] \in [pc: {"sent", "write", "closed"}, number: Numbers, written: 0..TextParts]
    BY DEF MailTypeOK
  <1>3. PICK new \in [pc: {"sent", "write", "closed"}, number: Numbers, written: 0..TextParts] :
          /\ letter' = [letter EXCEPT ![w] = new]
          /\ new.pc # "sent" /\ new.written >= letter[w].written
    <2>1. CASE letter' = [letter EXCEPT ![w].pc = "closed"]
      <3> DEFINE g == [pc |-> "closed", number |-> letter[w].number, written |-> letter[w].written]
      <3>3. [letter[w] EXCEPT !.pc = "closed"] = g
        BY <1>2
      <3>4. letter' = [letter EXCEPT ![w] = [letter[w] EXCEPT !.pc = "closed"]]
        BY <2>1
      <3> HIDE DEF g
      <3>1. letter' = [letter EXCEPT ![w] = g]
        BY <3>3, <3>4
      <3> USE DEF g
      <3>2. g \in [pc: {"sent", "write", "closed"}, number: Numbers, written: 0..TextParts]
            /\ g.pc # "sent" /\ g.written >= letter[w].written
        BY <1>2
      <3> QED BY <3>1, <3>2
    <2>2. CASE letter[w].written < TextParts
               /\ letter' = [letter EXCEPT ![w].written = letter[w].written + 1]
      <3> DEFINE g == [pc |-> letter[w].pc, number |-> letter[w].number,
                       written |-> letter[w].written + 1]
      <3>3. [letter[w] EXCEPT !.written = letter[w].written + 1] = g
        BY <1>2
      <3>4. letter' = [letter EXCEPT ![w] = [letter[w] EXCEPT !.written = letter[w].written + 1]]
        BY <2>2
      <3> HIDE DEF g
      <3>1. letter' = [letter EXCEPT ![w] = g]
        BY <3>3, <3>4
      <3> USE DEF g
      <3>2. g \in [pc: {"sent", "write", "closed"}, number: Numbers, written: 0..TextParts]
            /\ g.pc # "sent" /\ g.written >= letter[w].written
        BY <1>1, <1>2, <2>2, MailConstants
      <3> QED BY <3>1, <3>2
    <2> QED BY <2>1, <2>2 DEF WriteMessage
  <1>4. MailTypeOK'
    BY <1>1, <1>3 DEF MailTypeOK
  <1>5. \A v \in Writers : v # w => letter'[v] = letter[v]
    BY <1>3 DEF MailTypeOK
  <1>6. letter'[w] = new
    BY <1>3 DEF MailTypeOK
  <1>7. letter'[w].pc # "sent" /\ letter'[w].written >= letter[w].written
    BY <1>3, <1>6
  <1>8. ShownWritten'
    <2>1. mailShown[w] \in 0..TextParts /\ letter'[w].written \in 0..TextParts
      BY <1>3, <1>6 DEF MailTypeOK
    <2>2. mailShown[w] <= letter[w].written
      BY DEF ShownWritten
    <2>3. mailShown[w] <= letter'[w].written
      BY <1>2, <1>7, <2>1, <2>2, MailConstants
    <2> QED BY <1>1, <1>5, <2>3 DEF ShownWritten
  <1>11. \A v \in Writers : Excused(v) => Excused(v)'
    BY <1>1, <1>5 DEF Excused
  <1>12. ReadsMessages'
    BY <1>1 DEF ReadsMessages
  <1>9. NamesHold'
    <2> SUFFICES ASSUME NEW r \in Readers, r \notin robbed, NameHolds(r) PROVE NameHolds(r)'
      BY <1>1 DEF NamesHold
    <2>1. reader[r].message = NoMessage \/ reader[r].message \in Writers
      BY ReaderType
    <2> QED BY <1>1, <1>11, <2>1 DEF NameHolds
  <1>10. MailShown'
    <2> SUFFICES ASSUME NEW v \in Writers, \A k \in Numbers : dir[k] # v, letter'[v].pc # "sent"
                 PROVE  Excused(v)'
      BY <1>1 DEF MailShown, Excused
    <2>1. letter[v].pc # "sent"
      BY <1>1, <1>5
    <2> QED BY <1>11, <2>1 DEF MailShown, Excused
  <1> QED BY <1>4, <1>8, <1>9, <1>10, <1>12

LEMMA ScanStep ==
  ASSUME MailInv, NEW r \in Readers, ScanMessages(r)
  PROVE  MailInv'
  <1> USE DEF MailInv
  <1>1. PICK todo \in SUBSET Numbers, pc \in {"scan", "idle"} :
          /\ \A n \in todo : dir[n] # NoMessage
          /\ reader' = [reader EXCEPT ![r] = [pc |-> pc, todo |-> todo, found |-> FALSE,
                                              number |-> 0, message |-> NoMessage]]
          /\ pc = "idle" => todo = {}
    <2>1. CASE reader[r].pc = "idle" \/ reader[r].found
      <3>1. Used \in SUBSET Numbers /\ \A n \in Used : dir[n] # NoMessage
        BY DEF Used
      <3>2. reader' = [reader EXCEPT ![r] = [pc |-> "scan", todo |-> Used, found |-> FALSE,
                                             number |-> 0, message |-> NoMessage]]
        BY <2>1 DEF ScanMessages, AtRestReader
      <3> QED BY <3>1, <3>2
    <2>2. CASE ~(reader[r].pc = "idle" \/ reader[r].found)
      BY <2>2 DEF ScanMessages, AtRestReader
    <2> QED BY <2>1, <2>2
  <1>2. robbed' \in {robbed, robbed \ {r}}
    BY DEF ScanMessages
  <1>3. UNCHANGED <<dir, letter, mailShown, mailRead, blind>>
    BY DEF ScanMessages
  <1>4. reader'[r].pc = pc /\ reader'[r].todo = todo
    BY <1>1, ReaderType DEF AtRestReader
  <1>5. \A o \in Readers : o # r => reader'[o] = reader[o]
    BY <1>1, ReaderType
  <1>6. MailTypeOK'
    <2>1. 0 \in Numbers
      BY MailConstants DEF Numbers
    <2> QED BY <1>1, <1>2, <1>3, <2>1 DEF MailTypeOK, AtRestReader
  <1>7. NamesHold'
    BY <1>1, <1>2, <1>3, <1>4, <1>5 DEF NamesHold, NameHolds, Excused
  <1>8. ReadsMessages'
    BY <1>4, <1>5 DEF ReadsMessages
  <1> QED BY <1>3, <1>6, <1>7, <1>8 DEF ShownWritten, MailShown

LEMMA OpenStep ==
  ASSUME MailInv, NEW r \in Readers, OpenMessage(r)
  PROVE  MailInv'
  <1> USE DEF MailInv
  <1>0. PICK n \in reader[r].todo : \E m \in {dir[n], NoMessage} :
          reader' = [reader EXCEPT ![r] =
            [pc |-> IF m = NoMessage THEN "unlink" ELSE "read",
             todo |-> reader[r].todo \ {n}, found |-> TRUE, number |-> n, message |-> m]]
    BY DEF OpenMessage
  <1>1. PICK m \in {dir[n], NoMessage} :
          reader' = [reader EXCEPT ![r] =
            [pc |-> IF m = NoMessage THEN "unlink" ELSE "read",
             todo |-> reader[r].todo \ {n}, found |-> TRUE, number |-> n, message |-> m]]
    BY <1>0
  <1>2. UNCHANGED <<dir, letter, mailShown, mailRead, robbed, blind>> /\ reader[r].pc = "scan"
    BY DEF OpenMessage, Stays
  <1>3. n \in Numbers /\ m \in Writers \cup {NoMessage}
    BY ReaderType DEF MailTypeOK
  <1>4. /\ reader'[r].pc = IF m = NoMessage THEN "unlink" ELSE "read"
        /\ reader'[r].todo = reader[r].todo \ {n}
        /\ reader'[r].number = n /\ reader'[r].message = m
    BY <1>1, ReaderType
  <1>5. \A o \in Readers : o # r => reader'[o] = reader[o]
    BY <1>1, ReaderType
  <1>6. MailTypeOK'
    <2>1. reader[r].todo \ {n} \in SUBSET Numbers
      BY ReaderType
    <2> QED BY <1>1, <1>2, <1>3, <2>1 DEF MailTypeOK
  <1>7. r \notin robbed => \A k \in reader[r].todo : dir[k] # NoMessage
    BY <1>2 DEF NamesHold, NameHolds
  <1>8. NamesHold'
    BY <1>1, <1>2, <1>4, <1>5, <1>7 DEF NamesHold, NameHolds, Excused
  <1>9. ReadsMessages'
    BY <1>4, <1>5 DEF ReadsMessages
  <1> QED BY <1>2, <1>6, <1>8, <1>9 DEF ShownWritten, MailShown

LEMMA ShowStep ==
  ASSUME MailInv, NEW r \in Readers, ShowMessage(r)
  PROVE  MailInv'
  <1> USE DEF MailInv
  <1>1. PICK m \in Writers : m = reader[r].message
    BY ReaderType DEF ShowMessage, ReadsMessages
  <1>2. PICK k \in 0..letter[m].written :
          /\ mailShown' = [mailShown EXCEPT ![m] = IF k > mailShown[m] THEN k ELSE mailShown[m]]
          /\ mailRead' = IF letter[m].pc = "closed" /\ k = letter[m].written
                         THEN mailRead ELSE mailRead \cup {m}
    BY <1>1 DEF ShowMessage
  <1>16. /\ reader[r].pc = "read"
         /\ reader' = [reader EXCEPT ![r].pc = "unlink"]
         /\ UNCHANGED <<dir, letter, robbed, blind>>
    BY <1>1 DEF ShowMessage
  <1>3. /\ reader'[r].pc = "unlink" /\ reader'[r].todo = reader[r].todo
        /\ reader'[r].number = reader[r].number /\ reader'[r].message = m
        /\ \A o \in Readers : o # r => reader'[o] = reader[o]
    BY <1>1, <1>16, ReaderType DEF MailTypeOK
  <1>4. /\ letter[m].written \in 0..TextParts /\ mailShown[m] \in 0..TextParts
        /\ TextParts \in Nat /\ mailShown[m] <= letter[m].written
    BY <1>1, MailConstants DEF MailTypeOK, ShownWritten
  <1> DEFINE new == IF k > mailShown[m] THEN k ELSE mailShown[m]
  <1>17. new \in 0..TextParts /\ new <= letter[m].written /\ new >= k
    BY <1>4
  <1>18. mailShown' = [mailShown EXCEPT ![m] = new]
    BY <1>2
  <1>19. k = letter[m].written => new = letter[m].written
    BY <1>4, <1>17
  <1>20. mailShown[m] = letter[m].written => new = letter[m].written
    BY <1>4
  <1> HIDE DEF new
  <1>6. mailRead \subseteq mailRead' /\ mailRead' \subseteq mailRead \cup {m}
    BY <1>2
  <1>5. MailTypeOK'
    <2>1. mailShown' \in [Writers -> 0..TextParts]
      BY <1>1, <1>17, <1>18 DEF MailTypeOK
    <2>2. mailRead' \subseteq Writers
      BY <1>1, <1>6 DEF MailTypeOK
    <2>3. reader' \in [Readers -> [pc: {"idle", "scan", "read", "unlink"},
                             todo: SUBSET Numbers, found: BOOLEAN,
                             number: Numbers, message: Writers \cup {NoMessage}]]
      BY <1>16 DEF MailTypeOK
    <2> QED BY <1>16, <2>1, <2>2, <2>3 DEF MailTypeOK
  <1>7. \A v \in Writers : v # m => mailShown'[v] = mailShown[v]
    BY <1>1, <1>18 DEF MailTypeOK
  <1>8. mailShown'[m] = new
    BY <1>1, <1>18 DEF MailTypeOK
  <1>10. Excused(m)'
    <2>1. CASE letter[m].pc = "closed" /\ k = letter[m].written
      BY <1>8, <1>16, <1>19, <2>1 DEF Excused
    <2>2. CASE ~(letter[m].pc = "closed" /\ k = letter[m].written)
      BY <1>2, <2>2 DEF Excused
    <2> QED BY <2>1, <2>2
  <1>11. \A v \in Writers : Excused(v) => Excused(v)'
    BY <1>6, <1>7, <1>8, <1>16, <1>20 DEF Excused
  <1>12. NamesHold'
    <2> SUFFICES ASSUME NEW o \in Readers, o \notin robbed, NameHolds(o) PROVE NameHolds(o)'
      BY <1>16 DEF NamesHold
    <2>1. reader[o].message = NoMessage \/ reader[o].message \in Writers
      BY ReaderType
    <2>2. CASE o = r
      BY <1>1, <1>3, <1>10, <1>16, <2>2 DEF NameHolds
    <2>3. CASE o # r
      BY <1>3, <1>11, <1>16, <2>1, <2>3 DEF NameHolds
    <2> QED BY <2>2, <2>3
  <1>13. MailShown'
    BY <1>11, <1>16 DEF MailShown, Excused
  <1>14. ReadsMessages'
    BY <1>3 DEF ReadsMessages
  <1>15. ShownWritten'
    BY <1>7, <1>8, <1>16, <1>17 DEF ShownWritten
  <1> QED BY <1>5, <1>12, <1>13, <1>14, <1>15

LEMMA CrashStep ==
  ASSUME MailInv, NEW r \in Readers, CrashOnMessage(r)
  PROVE  MailInv'
  <1> USE DEF MailInv
  <1>1. /\ reader' = [reader EXCEPT ![r] = AtRestReader]
        /\ UNCHANGED <<dir, letter, mailShown, mailRead, robbed, blind>>
    BY DEF CrashOnMessage, Stays
  <1>2. reader'[r].pc = "idle" /\ \A o \in Readers : o # r => reader'[o] = reader[o]
    BY <1>1, ReaderType DEF AtRestReader
  <1>3. MailTypeOK'
    <2>1. 0 \in Numbers
      BY MailConstants DEF Numbers
    <2> QED BY <1>1, <2>1 DEF MailTypeOK, AtRestReader
  <1>4. NamesHold' /\ ReadsMessages'
    BY <1>1, <1>2 DEF NamesHold, NameHolds, ReadsMessages, Excused
  <1> QED BY <1>1, <1>3, <1>4 DEF ShownWritten, MailShown

LEMMA UnlinkStep ==
  ASSUME MailInv, NEW r \in Readers, UnlinkMessage(r)
  PROVE  MailInv'
  <1> USE DEF MailInv
  <1> DEFINE n == reader[r].number
  <1>1. /\ reader[r].pc = "unlink" /\ dir' = [dir EXCEPT ![n] = NoMessage]
        /\ blind' = IF r \in robbed \/ reader[r].message = NoMessage
                    THEN blind \cup ({dir[n]} \ {NoMessage}) ELSE blind
        /\ robbed' = robbed \cup {o \in Readers \ {r} : WorksOn(o, n)}
        /\ reader' = [reader EXCEPT ![r] =
             [pc |-> "scan", todo |-> reader[r].todo, found |-> TRUE, number |-> 0,
              message |-> NoMessage]]
        /\ UNCHANGED <<letter, mailShown, mailRead>>
    BY DEF UnlinkMessage, NextName
  <1>2. /\ reader'[r].pc = "scan" /\ reader'[r].todo = reader[r].todo
        /\ \A o \in Readers : o # r => reader'[o] = reader[o]
    BY <1>1, ReaderType DEF MailTypeOK
  <1>3. n \in Numbers
    BY ReaderType
  <1> HIDE DEF n
  <1>4. \A k \in Numbers : k # n => dir'[k] = dir[k]
    BY <1>1, <1>3 DEF MailTypeOK
  <1>5. dir[n] \in Writers \cup {NoMessage}
    BY <1>3 DEF MailTypeOK
  <1>6. MailTypeOK'
    BY <1>1, <1>3, <1>5, ReaderType, MailConstants DEF MailTypeOK, Numbers
  <1>7. \A v \in Writers : Excused(v) => Excused(v)'
    BY <1>1 DEF Excused
  <1>8. NamesHold'
    <2> SUFFICES ASSUME NEW o \in Readers, o \notin robbed' PROVE NameHolds(o)'
      BY DEF NamesHold
    <2>1. o \notin robbed
      BY <1>1
    <2>2. CASE o = r
      <3>1. n \notin reader[r].todo /\ reader[r].todo \subseteq Numbers
        BY <1>1, <2>1, <2>2, ReaderType DEF NamesHold, NameHolds, n
      <3>2. \A k \in reader[r].todo : dir[k] # NoMessage
        BY <1>1, <2>1, <2>2 DEF NamesHold, NameHolds
      <3> QED BY <1>2, <1>4, <2>2, <3>1, <3>2 DEF NameHolds
    <2>3. CASE o # r
      <3>1. ~WorksOn(o, n)
        BY <1>1, <2>3
      <3>2. reader'[o] = reader[o]
        BY <1>2, <2>3
      <3>3. reader[o].pc \in {"idle", "scan", "read", "unlink"}
            /\ reader[o].todo \subseteq Numbers /\ reader[o].number \in Numbers
        BY ReaderType
      <3>4. reader[o].pc # "idle" => n \notin reader[o].todo
        BY <3>1, <3>3 DEF WorksOn
      <3>5. reader[o].pc \in {"read", "unlink"} => n # reader[o].number
        BY <3>1, <3>3 DEF WorksOn
      <3>6. reader[o].message = NoMessage \/ reader[o].message \in Writers
        BY ReaderType
      <3> QED BY <1>4, <1>7, <2>1, <3>2, <3>3, <3>4, <3>5, <3>6 DEF NamesHold, NameHolds
    <2> QED BY <2>2, <2>3
  <1>9. MailShown'
    <2> SUFFICES ASSUME NEW w \in Writers, letter[w].pc # "sent", \A k \in Numbers : dir'[k] # w
                 PROVE  Excused(w)'
      BY <1>1 DEF MailShown, Excused
    <2>1. CASE dir[n] # w
      BY <1>4, <1>7, <2>1 DEF MailShown, Excused
    <2>2. CASE dir[n] = w /\ (r \in robbed \/ reader[r].message = NoMessage)
      BY <1>1, <2>2, MailConstants DEF Excused
    <2>3. CASE dir[n] = w /\ r \notin robbed /\ reader[r].message # NoMessage
      BY <1>1, <1>7, <2>3 DEF NamesHold, NameHolds, n
    <2> QED BY <2>1, <2>2, <2>3
  <1>10. ReadsMessages'
    BY <1>2 DEF ReadsMessages
  <1>11. ShownWritten'
    BY <1>1 DEF ShownWritten
  <1> QED BY <1>6, <1>8, <1>9, <1>10, <1>11

LEMMA UnlinkFailsStep ==
  ASSUME MailInv, NEW r \in Readers, UnlinkFails(r)
  PROVE  MailInv'
  <1> USE DEF MailInv
  <1>1. /\ reader[r].pc = "unlink"
        /\ reader' = [reader EXCEPT ![r] =
             [pc |-> "scan", todo |-> reader[r].todo, found |-> TRUE, number |-> 0,
              message |-> NoMessage]]
        /\ UNCHANGED <<dir, letter, mailShown, mailRead, robbed, blind>>
    BY DEF UnlinkFails, Stays, NextName
  <1>2. /\ reader'[r].pc = "scan" /\ reader'[r].todo = reader[r].todo
        /\ \A o \in Readers : o # r => reader'[o] = reader[o]
    BY <1>1, ReaderType
  <1>3. MailTypeOK'
    <2>1. 0 \in Numbers /\ reader[r].todo \in SUBSET Numbers
      BY ReaderType, MailConstants DEF Numbers
    <2> QED BY <1>1, <2>1 DEF MailTypeOK
  <1>4. NamesHold' /\ ReadsMessages'
    BY <1>1, <1>2 DEF NamesHold, NameHolds, ReadsMessages, Excused
  <1> QED BY <1>1, <1>3, <1>4 DEF ShownWritten, MailShown

LEMMA StepMail == MailInv /\ [MailNext]_mailVars => MailInv'
  <1> SUFFICES ASSUME MailInv, [MailNext]_mailVars PROVE MailInv'
    OBVIOUS
  <1>1. CASE UNCHANGED mailVars
    BY <1>1 DEF mailVars, MailInv, MailTypeOK, ShownWritten, NamesHold, NameHolds,
                ReadsMessages, MailShown, Excused
  <1> QED BY <1>1, CreateStep, WriteStep, ScanStep, OpenStep, ShowStep, CrashStep,
             UnlinkStep, UnlinkFailsStep DEF MailNext

(* Whatever number of writers and readers work on the directory at a time, *)
(* and whichever of them crash or fail, of a message whose file is gone    *)
(* all that was written was shown, but for those read while they were      *)
(* written or not to their end, and those removed by a reader that could   *)
(* not open them or whose name was reused (RsaveMessage, RtryReadMessage). *)
THEOREM MailIsShown == MailInit /\ [][MailNext]_mailVars => []MailShown
  <1>1. MailInv => MailShown
    BY DEF MailInv
  <1> QED BY <1>1, InitMail, StepMail, PTL
-----------------------------------------------------------------------------
(* FindWindow: the index that a walk over a network writes.                *)

FileRecords ==
  UNION {{RecordFields(p, e.name) : e \in {x \in Range(Network[p]) : x.kind = "F"}} :
         p \in DOMAIN Network}

(* One directory: its files and what was found below it.                   *)
Part(p, e, below) ==
  IF e.name \in Hiding \/ e.kind = "other" THEN <<>>
  ELSE IF e.kind = "F" THEN <<RecordFields(p, e.name)>>
  ELSE IF Append(p, e.name) \in DOMAIN Network THEN below[Append(p, e.name)] ELSE <<>>
Parts(p, below) == [i \in DOMAIN Network[p] |-> Part(p, Network[p][i], below)]

LEMMA PartsTyped ==
  ASSUME NEW p \in DOMAIN Network,
         NEW below \in [DOMAIN Network -> Seq(FileRecords)]
  PROVE  Flatten(Parts(p, below)) \in Seq(FileRecords)
  <1> DEFINE R == FileRecords
             l == Network[p]
  <1>1. l \in Seq(Range(l))
    BY NetworkAssumption
  <1>2. ASSUME NEW e \in Range(l) PROVE Part(p, e, below) \in Seq(R)
    <2>1. <<>> \in Seq(R)
      OBVIOUS
    <2>2. CASE e.kind = "F"
      <3>1. RecordFields(p, e.name) \in R
        BY <2>2 DEF FileRecords
      <3> HIDE DEF R
      <3>2. <<RecordFields(p, e.name)>> \in Seq(R)
        BY <3>1
      <3> QED BY <2>1, <2>2, <3>2 DEF Part
    <2>3. CASE e.kind # "F"
      <3> HIDE DEF R
      <3> QED BY <2>1, <2>3 DEF Part, R
    <2> QED BY <2>2, <2>3
  <1>3. Parts(p, below) \in Seq(Seq(R))
    <2> DEFINE n == Len(l)
               T == Seq(R)
    <2>1. n \in Nat /\ DOMAIN l = 1..n /\ \A i \in 1..n : l[i] \in Range(l)
      BY <1>1
    <2>2. \A i \in 1..n : Part(p, l[i], below) \in T
      BY <1>2, <2>1
    <2> HIDE DEF n, T
    <2>3. Parts(p, below) = [i \in 1..n |-> Part(p, l[i], below)]
      BY <2>1 DEF Parts
    <2>4. [i \in 1..n |-> Part(p, l[i], below)] \in Seq(T)
      BY <2>1, <2>2
    <2> QED BY <2>3, <2>4 DEF T
  <1> QED BY <1>3, FlattenTyped

LEMMA WalksTyped ==
  ASSUME NEW down
  PROVE  Walks(down)[Deepest] \in [DOMAIN Network -> Seq(FileRecords)]
  <1> DEFINE n == Deepest
             T == [DOMAIN Network -> Seq(FileRecords)]
             At(p, f) == IF p \in down THEN <<>> ELSE Flatten(Parts(p, f))
             Turn(f) == [p \in DOMAIN Network |-> At(p, f)]
             none == [p \in DOMAIN Network |-> <<>>]
             next == [i \in 1..n |-> [f \in T |-> Turn(f)]]
             Body(f) == [i \in 0..n |-> [p \in DOMAIN Network |->
                           IF i = 0 \/ p \in down THEN <<>>
                           ELSE Flatten(Parts(p, f[i - 1]))]]
  <1>1. n \in Nat /\ none \in T
    <2>1. Deepest \in Nat
      BY NetworkAssumption
    <2> QED BY <2>1
  <1>2. \A f \in T : Turn(f) \in T
    <2> SUFFICES ASSUME NEW f \in T, NEW p \in DOMAIN Network
                 PROVE  At(p, f) \in Seq(FileRecords)
      OBVIOUS
    <2>1. Flatten(Parts(p, f)) \in Seq(FileRecords)
      BY PartsTyped
    <2> QED BY <2>1
  <1> HIDE DEF T
  <1>3. next \in Steps(n, T)
    <2> HIDE DEF Turn
    <2> QED BY <1>2 DEF Steps
  <1>4. PICK h : Follows(h, n, T, none, next)
    <2> HIDE DEF next, n, none
    <2> QED BY <1>1, <1>3, Recursion
  <1>5. /\ h \in [0..n -> T] /\ h[0] = none
        /\ \A i \in 1..n : h[i] = Turn(h[i - 1])
    <2>1. /\ h \in [0..n -> T] /\ h[0] = none
          /\ \A i \in 1..n : h[i] = next[i][h[i - 1]]
      BY <1>4 DEF Follows
    <2> HIDE DEF Turn, none, n
    <2>2. \A i \in 1..n : i - 1 \in 0..n
      BY <1>1
    <2> QED BY <2>1, <2>2
  <1>6. h = Body(h)
    <2>1. ASSUME NEW i \in 0..n
          PROVE  h[i] = [p \in DOMAIN Network |->
                           IF i = 0 \/ p \in down THEN <<>>
                           ELSE Flatten(Parts(p, h[i - 1]))]
      <3>1. CASE i = 0
        BY <1>5, <3>1
      <3>2. CASE i # 0
        <4>1. i \in 1..n
          BY <1>1, <3>2
        <4> HIDE DEF n
        <4> QED BY <1>5, <3>2, <4>1
      <3> QED BY <3>1, <3>2
    <2>2. h = [i \in 0..n |-> h[i]]
      BY <1>5
    <2> HIDE DEF n
    <2> QED BY <2>1, <2>2
  <1> DEFINE w == Walks(down)
  <1>7. w = Body(w)
    <2>1. w = CHOOSE g : g = Body(g)
      BY Zenon DEF Walks, Parts, Part
    <2> HIDE DEF Body, w
    <2> QED BY <1>6, <2>1
  <1>8. w[0] = none /\ \A i \in 1..n : w[i] = Turn(w[i - 1])
    <2> HIDE DEF w
    <2>1. (\A i \in 1..n : i \in 0..n /\ i # 0) /\ 0 \in 0..n
      BY <1>1
    <2> DEFINE Line(f, i) == [p \in DOMAIN Network |->
                                IF i = 0 \/ p \in down THEN <<>>
                                ELSE Flatten(Parts(p, f[i - 1]))]
    <2>2. w = [i \in 0..n |-> Line(w, i)]
      BY <1>7
    <2>3. Line(w, 0) = none
      OBVIOUS
    <2>4. \A i \in 1..n : Line(w, i) = Turn(w[i - 1])
      BY <2>1
    <2> HIDE DEF Line, n, Turn, none
    <2>5. \A i \in 0..n : w[i] = Line(w, i)
      BY <2>2
    <2> QED BY <2>1, <2>3, <2>4, <2>5
  <1>9. 0..n \subseteq {i \in 0..n : w[i] \in T}
    <2> DEFINE Q == {i \in 0..n : w[i] \in T}
    <2> HIDE DEF w, Turn, none
    <2>1. 0 \in Q
      BY <1>1, <1>8
    <2>2. ASSUME NEW i \in 0..n - 1, i \in Q
          PROVE  i + 1 \in Q
      <3>1. i + 1 \in 1..n /\ i + 1 \in 0..n /\ w[i] \in T /\ i + 1 - 1 = i
        BY <1>1, <2>2
      <3>2. w[i + 1] = Turn(w[i])
        BY <1>8, <3>1
      <3> QED BY <1>2, <3>1, <3>2
    <2> HIDE DEF Q, n
    <2>3. 0..n \subseteq Q
      BY <1>1, <2>1, <2>2, UpTo
    <2> QED BY <2>3 DEF Q
  <1>10. n \in 0..n
    BY <1>1
  <1> HIDE DEF w
  <1>11. w[n] \in T
    BY <1>9, <1>10
  <1> QED BY <1>11 DEF w, n, T

(* The strings of an index file, and the records that are read from it.    *)
Strings == {<<>>, <<"#">>} \cup {r[j] : r \in FileRecords, j \in 1..5}
IndexRecords == [group : Strings, host : Strings, dir : Strings, file : Strings]

LEMMA RecordIsFive ==
  ASSUME NEW r \in FileRecords
  PROVE  /\ r \in Seq(Strings) /\ Len(r) = 5
         /\ \E p \in DOMAIN Network : \E e \in Range(Network[p]) :
               e.kind = "F" /\ r = RecordFields(p, e.name)
  <1>1. PICK p \in DOMAIN Network : \E e \in Range(Network[p]) :
          e.kind = "F" /\ r = RecordFields(p, e.name)
    BY DEF FileRecords
  <1>2. Len(r) = 5 /\ DOMAIN r = 1..5 /\ r = [j \in 1..5 |-> r[j]]
    BY <1>1 DEF RecordFields
  <1>3. \A j \in 1..5 : r[j] \in Strings
    BY DEF Strings
  <1> HIDE DEF Strings
  <1>4. r \in Seq(Strings)
    <2>1. [j \in 1..5 |-> r[j]] \in Seq(Strings)
      BY <1>3
    <2> QED BY <1>2, <2>1
  <1> QED BY <1>1, <1>2, <1>4

LEMMA CountIs ==
  ASSUME NEW n
  PROVE  CountFields(n) \in Seq(Strings) /\ Len(CountFields(n)) \in 3..4
  <1> DEFINE a == <<>>
             b == <<"#">>
             S == Strings
  <1>1. a \in S /\ b \in S
    BY DEF Strings
  <1>2. CountFields(n) = <<a, a, a, a>> \/ CountFields(n) = <<b, a, a>>
    BY DEF CountFields
  <1> HIDE DEF a, b, S
  <1>3. <<a, a, a, a>> \in Seq(S) /\ <<b, a, a>> \in Seq(S)
    BY <1>1
  <1>4. Len(<<a, a, a, a>>) = 4 /\ Len(<<b, a, a>>) = 3
    OBVIOUS
  <1>5. CASE CountFields(n) = <<a, a, a, a>>
    BY <1>3, <1>4, <1>5 DEF S
  <1>6. CASE CountFields(n) = <<b, a, a>>
    BY <1>3, <1>4, <1>6 DEF S
  <1> QED BY <1>2, <1>5, <1>6

LEMMA ListingTyped ==
  ASSUME NEW path, NEW down
  PROVE  Listing(path, down) \in Seq(FileRecords)
  <1> DEFINE T == Seq(FileRecords)
  <1>1. Walks(down)[Deepest] \in [DOMAIN Network -> T] /\ <<>> \in T
    BY WalksTyped
  <1> HIDE DEF T
  <1>2. Listing(path, down) \in T
    BY <1>1 DEF Listing, WalkPath
  <1> QED BY <1>2 DEF T

FoundIn(search, down) == [i \in DOMAIN Starts(search) |-> Listing(Starts(search)[i], down)]

LEMMA FoundInTyped ==
  ASSUME NEW search, search.marks \in Seq(Range(search.marks)), NEW down
  PROVE  /\ FoundIn(search, down) \in Seq(Seq(FileRecords))
         /\ Len(FoundIn(search, down)) > 0
         /\ Len(search.marks) <= 1 => Len(FoundIn(search, down)) = 1
  <1> DEFINE T == Seq(FileRecords)
             m == search.marks
             n == IF m = <<>> THEN 1 ELSE Len(m)
  <1>1. Len(m) \in Nat /\ DOMAIN m = 1..Len(m) /\ (m # <<>> => Len(m) > 0)
    OBVIOUS
  <1>2. DOMAIN Starts(search) = 1..n
    <2>1. CASE m = <<>>
      BY <2>1 DEF Starts
    <2>2. CASE m # <<>>
      BY <1>1, <2>2 DEF Starts
    <2> QED BY <2>1, <2>2
  <1>3. n \in Nat /\ n > 0 /\ (Len(m) <= 1 => n = 1)
    <2>1. CASE m = <<>>
      BY <2>1
    <2>2. CASE m # <<>>
      <3>1. n = Len(m) /\ Len(m) \in Nat /\ Len(m) > 0
        BY <1>1, <2>2
      <3> HIDE DEF n, m
      <3> QED BY <3>1
    <2> QED BY <2>1, <2>2
  <1>4. \A i \in 1..n : Listing(Starts(search)[i], down) \in T
    BY ListingTyped
  <1> HIDE DEF n, T, m
  <1>5. FoundIn(search, down) = [i \in 1..n |-> Listing(Starts(search)[i], down)]
    BY <1>2 DEF FoundIn
  <1>6. [i \in 1..n |-> Listing(Starts(search)[i], down)] \in Seq(T)
    BY <1>3, <1>4
  <1>7. Len([i \in 1..n |-> Listing(Starts(search)[i], down)]) = n
    BY <1>3
  <1> QED BY <1>3, <1>5, <1>6, <1>7 DEF T, m

LEMMA OneIndexTyped ==
  ASSUME NEW records \in Seq(FileRecords)
  PROVE  /\ Flatten(records) \in Seq(Strings)
         /\ Fives(records, Flatten(records), Len(records))
         /\ OneIndex(records) \in Seq(Strings)
  <1> DEFINE S == Strings
  <1>1. \A i \in 1..Len(records) : records[i] \in FileRecords
    BY ElementOfSeq
  <1>2. \A i \in 1..Len(records) : records[i] \in Seq(S) /\ Len(records[i]) = 5
    BY <1>1, RecordIsFive
  <1> HIDE DEF S
  <1>3. records \in Seq(Seq(S))
    BY <1>2
  <1>4. Flatten(records) \in Seq(S) /\ Fives(records, Flatten(records), Len(records))
    BY <1>2, <1>3, FlattenTyped, FlattenFives
  <1>5. CountFields(Len(records)) \in Seq(S)
    BY CountIs DEF S
  <1>6. OneIndex(records) \in Seq(S)
    BY <1>4, <1>5, ConcatProperties DEF OneIndex
  <1> QED BY <1>4, <1>6 DEF S

(* Every five strings of a file are a record.                              *)
LEMMA LoadedTyped ==
  ASSUME NEW file, file.fields \in Seq(Strings), file.skip \in Nat
  PROVE  Loaded(file) \in Seq(IndexRecords)
  <1> DEFINE f == SubSeq(file.fields, file.skip + 1, Len(file.fields))
             n == Len(f) \div 5
             S == Strings
  <1>1. f \in Seq(S)
    <2>1. Len(file.fields) \in Nat
      OBVIOUS
    <2>2. \A i \in file.skip + 1..Len(file.fields) : file.fields[i] \in S
      <3> SUFFICES ASSUME NEW i \in file.skip + 1..Len(file.fields)
                   PROVE  file.fields[i] \in S
        OBVIOUS
      <3>1. i \in 1..Len(file.fields)
        BY <2>1
      <3> QED BY <3>1, ElementOfSeq
    <2> HIDE DEF S
    <2> QED BY <2>1, <2>2, SubSeqProperties
  <1> HIDE DEF f, S
  <1>2. Len(f) \in Nat /\ n \in Nat /\ 5 * n <= Len(f)
    BY <1>1
  <1>3. ASSUME NEW i \in 1..n
        PROVE  FromFields(SubSeq(f, 5 * i - 4, 5 * i)) \in IndexRecords
    <2> DEFINE g == SubSeq(f, 5 * i - 4, 5 * i)
    <2>1. 5 * i - 4 \in 1..Len(f) /\ 5 * i \in 1..Len(f)
      BY <1>2
    <2>2. \A j \in 1..5 : g[j] = f[5 * i - 5 + j] /\ 5 * i - 5 + j \in 1..Len(f)
      <3> HIDE DEF n
      <3> QED BY <1>2, <2>1
    <2>3. \A j \in 1..5 : g[j] \in S
      BY <1>1, <2>2, ElementOfSeq
    <2> HIDE DEF g
    <2>4. FromFields(g) \in IndexRecords
      BY <2>3 DEF FromFields, IndexRecords, S
    <2> QED BY <2>4 DEF g
  <1>4. Loaded(file) = [i \in 1..n |-> FromFields(SubSeq(f, 5 * i - 4, 5 * i))]
    BY DEF Loaded, f
  <1> DEFINE T == IndexRecords
             at(i) == FromFields(SubSeq(f, 5 * i - 4, 5 * i))
  <1>5. \A i \in 1..n : at(i) \in T
    BY <1>3
  <1>6. Loaded(file) = [i \in 1..n |-> at(i)]
    BY <1>4
  <1> HIDE DEF T, at, n
  <1>7. [i \in 1..n |-> at(i)] \in Seq(T)
    BY <1>2, <1>5
  <1> QED BY <1>6, <1>7 DEF T

(* The records of one list are read as they were written.                  *)
LEMMA LoadedIsList ==
  ASSUME NEW records \in Seq(FileRecords), NEW file, file.fields = OneIndex(records),
         file.skip = Len(CountFields(Len(records)))
  PROVE  /\ Len(Loaded(file)) = Len(records)
         /\ \A i \in 1..Len(records) : Loaded(file)[i] = FromFields(records[i])
  <1> DEFINE c == CountFields(Len(records))
             g == Flatten(records)
             f == SubSeq(file.fields, file.skip + 1, Len(file.fields))
             n == Len(records)
  <1>1. n \in Nat
    BY LenProperties
  <1>2. c \in Seq(Strings) /\ g \in Seq(Strings) /\ Fives(records, g, n)
    BY CountIs, OneIndexTyped
  <1>3. /\ c \o g \in Seq(Strings) /\ Len(c \o g) = Len(c) + Len(g)
        /\ \A k \in 1..Len(c) + Len(g) :
              (c \o g)[k] = IF k <= Len(c) THEN c[k] ELSE g[k - Len(c)]
    <2> HIDE DEF c, g
    <2> QED BY <1>2, ConcatProperties
  <1>4. f = SubSeq(c \o g, Len(c) + 1, Len(c) + Len(g))
    BY <1>3 DEF OneIndex
  <1> HIDE DEF c, g, f, n
  <1> DEFINE S == Strings
             h == c \o g
             u == Len(c) + 1
             v == Len(c) + Len(g)
  <1>5. /\ Len(c) \in Nat /\ Len(g) \in Nat /\ u \in Int /\ v \in Int
        /\ \A k \in u..v : h[k] = g[k - Len(c)] /\ k - Len(c) \in 1..Len(g)
    BY <1>2, <1>3
  <1>6. \A k \in u..v : h[k] \in S
    BY <1>2, <1>5, ElementOfSeq
  <1>7. /\ SubSeq(h, u, v) \in Seq(S)
        /\ Len(SubSeq(h, u, v)) = IF u <= v THEN v - u + 1 ELSE 0
        /\ \A k \in 1..v - u + 1 : SubSeq(h, u, v)[k] = h[u + k - 1]
    <2> HIDE DEF h, u, v, S
    <2> QED BY <1>5, <1>6, SubSeqProperties
  <1>8. Len(f) = Len(g) /\ \A k \in 1..Len(g) : f[k] = g[k]
    <2>1. f = SubSeq(h, u, v)
      BY <1>4
    <2>2. Len(f) = Len(g)
      <3> HIDE DEF h
      <3> QED BY <1>5, <1>7, <2>1
    <2>3. ASSUME NEW k \in 1..Len(g) PROVE f[k] = g[k]
      <3> HIDE DEF h
      <3>1. k \in 1..v - u + 1 /\ u + k - 1 \in u..v /\ u + k - 1 - Len(c) = k
        BY <1>5
      <3> HIDE DEF u, v
      <3>2. f[k] = h[u + k - 1]
        BY <1>7, <2>1, <3>1
      <3>3. h[u + k - 1] = g[k]
        BY <1>5, <3>1
      <3> QED BY <3>2, <3>3
    <2> QED BY <2>2, <2>3
  <1>9. Len(g) = 5 * n /\ Len(f) \div 5 = n
    BY <1>1, <1>2, <1>8 DEF Fives
  <1>10. Loaded(file) = [i \in 1..n |-> FromFields(SubSeq(f, 5 * i - 4, 5 * i))]
    BY <1>9 DEF Loaded, f
  <1>11. ASSUME NEW i \in 1..n
         PROVE  FromFields(SubSeq(f, 5 * i - 4, 5 * i)) = FromFields(records[i])
    <2> DEFINE t == SubSeq(f, 5 * i - 4, 5 * i)
    <2>1. \A j \in 1..5 : t[j] = f[5 * i - 5 + j] /\ 5 * i - 5 + j \in 1..Len(g)
      BY <1>1, <1>9
    <2>2. \A j \in 1..5 : f[5 * i - 5 + j] = records[i][j]
      BY <1>2, <1>8, <2>1 DEF Fives
    <2> HIDE DEF t
    <2>3. FromFields(t) = FromFields(records[i])
      BY <2>1, <2>2 DEF FromFields
    <2> QED BY <2>3 DEF t
  <1>12. Len(Loaded(file)) = n
    BY <1>1, <1>10
  <1>13. \A i \in 1..n : Loaded(file)[i] = FromFields(records[i])
    BY <1>10, <1>11
  <1> QED BY <1>12, <1>13 DEF n

(* A record tells of a file that is there.                                 *)
IsOfFile(r) ==
  LET p == r.group \o r.host \o r.dir
  IN  /\ p \in DOMAIN Network
      /\ \E e \in Range(Network[p]) : e.kind = "F" /\ <<e.name>> = r.file

LEMMA PathOfRecord ==
  ASSUME NEW S, NEW p \in Seq(S), Len(p) > 2
  PROVE  <<p[1]>> \o <<p[2]>> \o SubSeq(p, 3, Len(p)) = p
  <1> DEFINE n == Len(p)
             a == <<p[1]>>
             b == <<p[2]>>
             c == SubSeq(p, 3, n)
  <1>1. n \in Nat /\ n > 2 /\ \A i \in 1..n : p[i] \in S
    OBVIOUS
  <1>2. a \in Seq(S) /\ Len(a) = 1 /\ a[1] = p[1] /\ b \in Seq(S) /\ Len(b) = 1 /\ b[1] = p[2]
    BY <1>1
  <1>3. c \in Seq(S) /\ Len(c) = n - 2 /\ \A k \in 1..n - 2 : c[k] = p[k + 2]
    <2>1. \A i \in 3..n : p[i] \in S
      BY <1>1
    <2>2. /\ SubSeq(p, 3, n) \in Seq(S)
          /\ Len(SubSeq(p, 3, n)) = IF 3 <= n THEN n - 3 + 1 ELSE 0
          /\ \A k \in 1..n - 3 + 1 : SubSeq(p, 3, n)[k] = p[3 + k - 1]
      <3> HIDE DEF n
      <3> QED BY <1>1, <2>1, SubSeqProperties
    <2>3. \A k \in 1..n - 2 : k \in 1..n - 3 + 1 /\ 3 + k - 1 = k + 2
      BY <1>1
    <2> HIDE DEF n
    <2> QED BY <1>1, <2>2, <2>3
  <1> HIDE DEF a, b, c, n
  <1>4. /\ a \o b \in Seq(S) /\ Len(a \o b) = 2
        /\ \A i \in 1..2 : (a \o b)[i] = IF i <= 1 THEN a[i] ELSE b[i - 1]
    <2>1. /\ a \o b \in Seq(S) /\ Len(a \o b) = Len(a) + Len(b)
          /\ \A i \in 1..(Len(a) + Len(b)) :
                (a \o b)[i] = IF i <= Len(a) THEN a[i] ELSE b[i - Len(a)]
      BY <1>2, ConcatProperties
    <2> QED BY <1>2, <2>1
  <1> DEFINE d == a \o b
  <1>5. d \in Seq(S) /\ Len(d) = 2 /\ d[1] = p[1] /\ d[2] = p[2]
    BY <1>2, <1>4
  <1> HIDE DEF d
  <1>6. /\ d \o c \in Seq(S) /\ Len(d \o c) = n
        /\ \A i \in 1..n : (d \o c)[i] = IF i <= 2 THEN d[i] ELSE c[i - 2]
    <2>1. Len(d) + Len(c) = n
      BY <1>1, <1>3, <1>5
    <2>2. /\ d \o c \in Seq(S) /\ Len(d \o c) = Len(d) + Len(c)
          /\ \A i \in 1..(Len(d) + Len(c)) :
                (d \o c)[i] = IF i <= Len(d) THEN d[i] ELSE c[i - Len(d)]
      <3>1. c \in Seq(S) /\ d \in Seq(S)
        BY <1>3, <1>5
      <3> QED BY <3>1, ConcatProperties
    <2> QED BY <1>5, <2>1, <2>2
  <1>7. \A i \in 1..n : (d \o c)[i] = p[i]
    <2> SUFFICES ASSUME NEW i \in 1..n PROVE (d \o c)[i] = p[i]
      OBVIOUS
    <2>1. i = 1 \/ i = 2 \/ (i > 2 /\ i - 2 \in 1..n - 2 /\ i - 2 + 2 = i)
      BY <1>1
    <2>2. CASE i = 1
      BY <1>1, <1>5, <1>6, <2>2
    <2>3. CASE i = 2
      BY <1>1, <1>5, <1>6, <2>3
    <2>4. CASE i > 2
      <3>1. (d \o c)[i] = c[i - 2]
        BY <1>6, <2>1, <2>4
      <3>2. c[i - 2] = p[i - 2 + 2] /\ i - 2 + 2 = i
        BY <1>3, <2>1, <2>4
      <3> QED BY <3>1, <3>2
    <2> QED BY <2>1, <2>2, <2>3, <2>4
  <1>8. d \o c = p
    BY <1>6, <1>7, SeqEqual DEF n
  <1> QED BY <1>8 DEF a, b, c, d, n

LEMMA RecordIsOfFile ==
  ASSUME NEW r \in FileRecords
  PROVE  IsOfFile(FromFields(r))
  <1>1. PICK p \in DOMAIN Network : \E e \in Range(Network[p]) :
          e.kind = "F" /\ r = RecordFields(p, e.name)
    BY RecordIsFive
  <1>2. PICK e \in Range(Network[p]) : e.kind = "F" /\ r = RecordFields(p, e.name)
    BY <1>1
  <1>3. p \in Seq(Range(p)) /\ Len(p) > 2
    BY <1>2, NetworkAssumption
  <1>4. <<p[1]>> \o <<p[2]>> \o SubSeq(p, 3, Len(p)) = p
    BY <1>3, PathOfRecord
  <1> DEFINE q == FromFields(r)
  <1>5. q.group = <<p[1]>> /\ q.host = <<p[2]>> /\ q.dir = SubSeq(p, 3, Len(p))
        /\ q.file = <<e.name>>
    BY <1>2 DEF FromFields, RecordFields
  <1> HIDE DEF q
  <1>6. q.group \o q.host \o q.dir = p
    BY <1>4, <1>5
  <1>7. IsOfFile(q)
    BY <1>2, <1>5, <1>6, Zenon DEF IsOfFile
  <1> QED BY <1>7 DEF q

LEMMA IndexFileIs ==
  ASSUME NEW search, search.marks \in Seq(Range(search.marks)), NEW down, NEW lists,
         lists = FoundIn(search, down)
  PROVE  /\ IndexFile(search, down).fields \in Seq(Strings)
         /\ IndexFile(search, down).skip \in Nat
         /\ lists[1] \in Seq(FileRecords)
         /\ IndexFile(search, down).skip = Len(CountFields(Len(lists[1])))
         /\ Len(search.marks) <= 1 => IndexFile(search, down).fields = OneIndex(lists[1])
  <1> DEFINE S == Strings
             n == Len(lists)
             T == Seq(FileRecords)
             file == IndexFile(search, down)
  <1>1. lists \in Seq(T) /\ n > 0 /\ (Len(search.marks) <= 1 => n = 1)
    BY FoundInTyped
  <1>2. n \in Nat /\ DOMAIN lists = 1..n /\ \A i \in 1..n : lists[i] \in T
    BY <1>1
  <1> DEFINE parts == [i \in 1..n |-> OneIndex(lists[i])]
  <1>3. \A i \in 1..n : OneIndex(lists[i]) \in Seq(S)
    BY <1>2, OneIndexTyped
  <1>4. parts \in Seq(Seq(S)) /\ Len(parts) = n
    <2> DEFINE U == Seq(S)
    <2>1. \A i \in 1..n : OneIndex(lists[i]) \in U
      BY <1>3
    <2> HIDE DEF n, U
    <2>2. parts \in Seq(U) /\ Len(parts) = n
      BY <1>2, <2>1
    <2> QED BY <2>2 DEF U
  <1>5. file.fields = Flatten(parts) /\ file.skip = Len(CountFields(Len(lists[1])))
    <2>1. file = [skip |-> Len(CountFields(Len(FoundIn(search, down)[1]))),
                  fields |-> Flatten([i \in DOMAIN FoundIn(search, down) |->
                                        OneIndex(FoundIn(search, down)[i])])]
      BY Zenon DEF IndexFile, FoundIn
    <2>2. file = [skip |-> Len(CountFields(Len(lists[1]))),
                  fields |-> Flatten([i \in 1..n |-> OneIndex(lists[i])])]
      BY <1>2, <2>1, Zenon
    <2> DEFINE a == Len(CountFields(Len(lists[1])))
               b == Flatten(parts)
    <2>3. file = [skip |-> a, fields |-> b]
      BY <2>2
    <2> HIDE DEF a, b, file
    <2>4. file.fields = b /\ file.skip = a
      BY <2>3
    <2> QED BY <2>4 DEF a, b
  <1>6. Flatten(parts) \in Seq(S)
    <2> HIDE DEF parts
    <2> QED BY <1>4, FlattenTyped
  <1>7. file.skip \in Nat
    BY <1>5, CountIs
  <1>8. 1 \in 1..n
    BY <1>1, <1>2
  <1>9. ASSUME n = 1
        PROVE  Flatten(parts) = OneIndex(lists[1])
    <2>1. parts[1] = OneIndex(lists[1]) /\ parts[1] \in Seq(S)
      BY <1>3, <1>8
    <2> HIDE DEF parts, n
    <2>2. /\ FlattenUpTo(parts)[0] = <<>>
          /\ \A i \in 1..1 : FlattenUpTo(parts)[i] = FlattenUpTo(parts)[i - 1] \o parts[i]
      BY <1>4, <1>9, FlattenUpToIs
    <2> DEFINE Joined(k, j) == FlattenUpTo(parts)[k] \o parts[j]
    <2>3. \A i \in 1..1 : FlattenUpTo(parts)[i] = Joined(i - 1, i)
      BY <2>2
    <2> HIDE DEF Joined
    <2>4. FlattenUpTo(parts)[1] = Joined(0, 1)
      BY <2>3
    <2>5. Joined(0, 1) = <<>> \o parts[1]
      BY <2>2, Zenon DEF Joined
    <2>6. <<>> \o parts[1] = parts[1]
      BY <2>1, ConcatEmptySeq
    <2> QED BY <1>4, <1>9, <2>1, <2>4, <2>5, <2>6 DEF Flatten
  <1> HIDE DEF S, n, T, parts, file
  <1>10. lists[1] \in T
    BY <1>2, <1>8
  <1>11. Len(search.marks) <= 1 => file.fields = OneIndex(lists[1])
    BY <1>1, <1>5, <1>9
  <1>12. file.fields \in Seq(S)
    BY <1>5, <1>6
  <1> QED BY <1>5, <1>7, <1>10, <1>11, <1>12 DEF S, T, file

LEMMA IndexIs ==
  ASSUME NEW search, search.marks \in Seq(Range(search.marks)), NEW down, NEW index,
         index = Loaded(IndexFile(search, down))
  PROVE  /\ index \in Seq(IndexRecords)
         /\ Len(search.marks) <= 1 => \A i \in 1..Len(index) : IsOfFile(index[i])
  <1> DEFINE lists == FoundIn(search, down)
             file == IndexFile(search, down)
  <1>1. /\ file.fields \in Seq(Strings) /\ file.skip \in Nat
        /\ lists[1] \in Seq(FileRecords)
        /\ file.skip = Len(CountFields(Len(lists[1])))
        /\ Len(search.marks) <= 1 => file.fields = OneIndex(lists[1])
    BY IndexFileIs
  <1>2. index = Loaded(file)
    OBVIOUS
  <1> HIDE DEF lists, file
  <1>3. index \in Seq(IndexRecords)
    BY <1>1, <1>2, LoadedTyped
  <1>4. ASSUME Len(search.marks) <= 1, NEW i \in 1..Len(index)
        PROVE  IsOfFile(index[i])
    <2>1. /\ Len(index) = Len(lists[1])
          /\ \A k \in 1..Len(lists[1]) : index[k] = FromFields(lists[1][k])
      BY <1>1, <1>2, <1>4, LoadedIsList
    <2>2. lists[1][i] \in FileRecords /\ index[i] = FromFields(lists[1][i])
      BY <1>1, <2>1, ElementOfSeq
    <2> QED BY <2>2, RecordIsOfFile
  <1> QED BY <1>3, <1>4

-----------------------------------------------------------------------------
(* FindWindow: the rows that are painted while the index is read on.       *)

RowStates(w) == [k : 1..Len(w.hits), pos : Nat, row : Nat]
RowOf(w, s) == IF s.pos < w.hits[s.k] THEN w.hits[s.k] ELSE s.pos
RowStep(w, s) ==
  [k |-> IF s.k < Len(w.hits) THEN s.k + 1 ELSE s.k,
   pos |-> RowOf(w, s) + 1, row |-> RowOf(w, s)]
RowStart(w) == [k |-> w.first, pos |-> w.hits[w.first], row |-> 0]

LEMMA RowWalkIs ==
  ASSUME NEW w, w.hits \in Seq(Nat), w.first \in 1..Len(w.hits), NEW rows \in Nat
  PROVE  /\ RowWalk(w, rows)[0] = RowStart(w)
         /\ \A i \in 1..rows : RowWalk(w, rows)[i] = RowStep(w, RowWalk(w, rows)[i - 1])
  <1> DEFINE T == RowStates(w)
             start == RowStart(w)
             Turn(s) == RowStep(w, s)
             next == [i \in 1..rows |-> [s \in T |-> Turn(s)]]
             Body(f) == [i \in 0..rows |-> IF i = 0 THEN start ELSE Turn(f[i - 1])]
  <1>1. Len(w.hits) \in Nat /\ \A k \in 1..Len(w.hits) : w.hits[k] \in Nat
    OBVIOUS
  <1>2. start \in T
    BY <1>1 DEF RowStart, RowStates
  <1>3. \A s \in T : Turn(s) \in T
    <2> SUFFICES ASSUME NEW s \in RowStates(w) PROVE RowStep(w, s) \in RowStates(w)
      OBVIOUS
    <2>1. s.k \in 1..Len(w.hits) /\ s.pos \in Nat
      BY DEF RowStates
    <2>2. RowOf(w, s) \in Nat
      BY <1>1, <2>1 DEF RowOf
    <2>3. (IF s.k < Len(w.hits) THEN s.k + 1 ELSE s.k) \in 1..Len(w.hits)
      BY <1>1, <2>1
    <2> QED BY <2>2, <2>3 DEF RowStates, RowStep
  <1> HIDE DEF T, start, Turn
  <1>4. next \in Steps(rows, T)
    BY <1>3 DEF Steps
  <1>5. PICK h : Follows(h, rows, T, start, next)
    <2> HIDE DEF next
    <2> QED BY <1>2, <1>4, Recursion
  <1>6. /\ h \in [0..rows -> T] /\ h[0] = start
        /\ \A i \in 1..rows : h[i] = Turn(h[i - 1])
    <2>1. /\ h \in [0..rows -> T] /\ h[0] = start
          /\ \A i \in 1..rows : h[i] = next[i][h[i - 1]]
      BY <1>5 DEF Follows
    <2>2. \A i \in 1..rows : i - 1 \in 0..rows
      OBVIOUS
    <2> QED BY <2>1, <2>2
  <1>7. h = Body(h)
    <2>1. \A i \in 0..rows : i = 0 \/ i \in 1..rows
      OBVIOUS
    <2>2. \A i \in 0..rows : h[i] = IF i = 0 THEN start ELSE Turn(h[i - 1])
      BY <1>6, <2>1
    <2>3. h = [i \in 0..rows |-> h[i]]
      BY <1>6
    <2> QED BY <2>2, <2>3
  <1> DEFINE walk == RowWalk(w, rows)
  <1>8. walk = Body(walk)
    <2>1. walk = CHOOSE g : g = Body(g)
      BY Zenon DEF RowWalk, Turn, start, RowStep, RowOf, RowStart
    <2> HIDE DEF Body, walk
    <2> QED BY <1>7, <2>1
  <1> HIDE DEF walk
  <1>9. \A i \in 0..rows : walk[i] = IF i = 0 THEN start ELSE Turn(walk[i - 1])
    BY <1>8
  <1>10. 0 \in 0..rows /\ \A i \in 1..rows : i \in 0..rows /\ i # 0
    OBVIOUS
  <1> QED BY <1>9, <1>10 DEF walk, start, Turn

(* What RcreateNewRecordInIndexTable numbers goes up.                      *)
GoesUp(hits) == \A i, j \in 1..Len(hits) : i < j => hits[i] < hits[j]

(* So the row of a hit shows its record, from whichever hit the list is    *)
(* painted.                                                                *)
LEMMA RowIsHit ==
  ASSUME NEW w, w.hits \in Seq(Nat), GoesUp(w.hits), w.first \in 1..Len(w.hits),
         NEW last \in w.first..Len(w.hits)
  PROVE  PaintedRow(w, last) = w.hits[last]
  <1> DEFINE n == Len(w.hits)
             hit == w.hits
             from == w.first
             rows == last - w.first + 1
             walk == RowWalk(w, rows)
             Is(s, m) == /\ s.k = IF from + m <= n THEN from + m ELSE n
                         /\ s.pos = IF m = 0 THEN hit[from] ELSE hit[from + m - 1] + 1
                         /\ m > 0 => s.row = hit[from + m - 1]
             Q == {m \in 0..rows : Is(walk[m], m)}
  <1>1. /\ n \in Nat /\ from \in 1..n /\ last \in from..n /\ rows \in Nat /\ rows > 0
        /\ \A i \in 1..n : hit[i] \in Nat
        /\ \A i, j \in 1..n : i < j => hit[i] < hit[j]
    <2>1. n \in Nat /\ \A i \in 1..n : hit[i] \in Nat
      OBVIOUS
    <2>2. \A i, j \in 1..n : i < j => hit[i] < hit[j]
      BY DEF GoesUp
    <2>3. from \in 1..n /\ last \in from..n
      OBVIOUS
    <2> HIDE DEF n, hit, from
    <2>4. rows \in Nat /\ rows > 0
      BY <2>1, <2>3
    <2> QED BY <2>1, <2>2, <2>3, <2>4
  <1>2. walk[0] = RowStart(w) /\ \A i \in 1..rows : walk[i] = RowStep(w, walk[i - 1])
    BY <1>1, RowWalkIs
  <1>3. RowStart(w) = [k |-> from, pos |-> hit[from], row |-> 0]
    BY DEF RowStart
  <1>4. \A s : RowStep(w, s) =
          [k |-> IF s.k < n THEN s.k + 1 ELSE s.k,
           pos |-> (IF s.pos < hit[s.k] THEN hit[s.k] ELSE s.pos) + 1,
           row |-> IF s.pos < hit[s.k] THEN hit[s.k] ELSE s.pos]
    BY DEF RowStep, RowOf
  <1> HIDE DEF walk, n, hit, from, rows
  <1>5. 0 \in Q
    BY <1>1, <1>2, <1>3
  <1>6. ASSUME NEW m \in 0..rows - 1, m \in Q
        PROVE  m + 1 \in Q
    <2> DEFINE s == walk[m]
               r == hit[from + m]
    <2>1. m + 1 \in 1..rows /\ m + 1 \in 0..rows /\ m + 1 - 1 = m /\ from + m \in 1..n
      BY <1>1 DEF rows, n, from
    <2>2. Is(s, m)
      BY <1>6
    <2>3. s.k = from + m
      BY <2>1, <2>2
    <2>4. (IF s.pos < hit[s.k] THEN hit[s.k] ELSE s.pos) = r
      <3>1. CASE m = 0
        BY <1>1, <2>2, <2>3, <3>1
      <3>2. CASE m # 0
        <4>1. from + m - 1 \in 1..n /\ from + m - 1 < from + m
          BY <1>1, <2>1, <3>2
        <4>2. s.pos = hit[from + m - 1] + 1
          BY <2>2, <3>2
        <4>3. hit[from + m - 1] < hit[from + m] /\ hit[from + m - 1] \in Nat
              /\ hit[from + m] \in Nat
          BY <1>1, <2>1, <4>1
        <4> QED BY <2>3, <4>2, <4>3
      <3> QED BY <3>1, <3>2
    <2>5. walk[m + 1] = RowStep(w, s)
      BY <1>2, <2>1
    <2>6. RowStep(w, s) = [k |-> IF from + m < n THEN from + m + 1 ELSE from + m,
                           pos |-> r + 1, row |-> r]
      BY <1>4, <2>3, <2>4
    <2> DEFINE t == walk[m + 1]
    <2>7. /\ t.k = IF from + m < n THEN from + m + 1 ELSE from + m
          /\ t.pos = r + 1 /\ t.row = r
      BY <2>5, <2>6
    <2>8. from + (m + 1) = from + m + 1 /\ from + (m + 1) - 1 = from + m /\ m + 1 > 0
      BY <1>1, <2>1
    <2>9. t.k = IF from + (m + 1) <= n THEN from + (m + 1) ELSE n
      <3> DEFINE c == from + m
      <3>1. c \in 1..n /\ n \in Nat /\ from + (m + 1) = c + 1
        BY <1>1, <2>1, <2>8
      <3>2. t.k = IF c < n THEN c + 1 ELSE c
        BY <2>7
      <3> HIDE DEF c, t
      <3> QED BY <3>1, <3>2
    <2> HIDE DEF t
    <2>10. Is(t, m + 1)
      BY <2>1, <2>7, <2>8, <2>9
    <2> QED BY <2>1, <2>10 DEF t
  <1>7. rows \in Q
    <2> HIDE DEF Q
    <2>1. 0..rows \subseteq Q
      BY <1>1, <1>5, <1>6, UpTo
    <2> QED BY <1>1, <2>1
  <1>8. walk[rows].row = hit[from + rows - 1]
    BY <1>1, <1>7
  <1>9. from + rows - 1 = last
    BY <1>1 DEF rows, from
  <1> QED BY <1>8, <1>9 DEF PaintedRow, walk, rows, hit

-----------------------------------------------------------------------------
(* FindWindow: the window.                                                 *)

FieldSet == {"file", "dir", "host", "group"}
IndexLists == Seq(IndexRecords)
HitLists == Seq(Nat)
Typings == [FieldSet -> Queries]
Buttons == 1..4
FindPlaces == {"closed", "ask", "list", "crash"} \cup FieldSet
FindStates ==
  [at : FindPlaces, button : Buttons, typed : Typings, live : BOOLEAN, marks : Nat,
   index : IndexLists, hits : HitLists, first : Int, select : Int,
   height : Heights, resized : BOOLEAN, below : BOOLEAN]

IndexHolds(w) == w.marks <= 1 => \A i \in 1..Len(w.index) : IsOfFile(w.index[i])
HitsHold(w) ==
  GoesUp(w.hits) /\ \A i \in 1..Len(w.hits) : w.hits[i] \in 1..Len(w.index)
AllFound(w) == \A i \in 1..Len(w.hits) : Found(w, w.hits[i])

(* The window is around the selection, but for the named cases.            *)
ScrollHolds(w) ==
  /\ 1 <= w.first /\ w.first <= w.select /\ w.select <= Len(w.hits)
  /\ w.resized \/ w.below \/ w.select < w.first + w.height

FindHolds(w) ==
  /\ w \in FindStates /\ IndexHolds(w) /\ HitsHold(w)
  /\ w.at = "list" => AllFound(w) /\ ScrollHolds(w)

LEMMA NoWindowHolds == FindHolds(NoWindow)
  <1>1. Height0 \in Heights /\ "" \in Queries
    BY FindAssumption
  <1>2. NoWindow \in FindStates
    <2>1. [f \in FieldSet |-> ""] \in [FieldSet -> Queries]
      BY <1>1
    <2> DEFINE none == <<>>
               t == [f \in FieldSet |-> ""]
    <2>2. none \in IndexLists /\ none \in HitLists
      BY DEF IndexLists, HitLists
    <2>3. NoWindow = [at |-> "closed", button |-> 4, typed |-> t, live |-> TRUE,
                      marks |-> 0, index |-> none, hits |-> none, first |-> 1,
                      select |-> 1, height |-> Height0, resized |-> FALSE,
                      below |-> FALSE]
      BY DEF NoWindow, FieldSet
    <2>4. t \in [FieldSet -> Queries]
      BY <2>1
    <2> HIDE DEF none, t
    <2> DEFINE w == [at |-> "closed", button |-> 4, typed |-> t, live |-> TRUE,
                     marks |-> 0, index |-> none, hits |-> none, first |-> 1,
                     select |-> 1, height |-> Height0, resized |-> FALSE,
                     below |-> FALSE]
    <2>5. w \in FindStates
      <3>1. "closed" \in FindPlaces /\ 4 \in Buttons /\ t \in Typings
        BY <2>4 DEF FindPlaces, Buttons, Typings
      <3>2. 0 \in Nat /\ 1 \in Int /\ TRUE \in BOOLEAN /\ FALSE \in BOOLEAN
        OBVIOUS
      <3> QED BY <1>1, <2>2, <3>1, <3>2, Zenon DEF FindStates
    <2>6. NoWindow = w
      BY <2>3
    <2> HIDE DEF w
    <2> QED BY <2>5, <2>6
  <1>3. Len(NoWindow.index) = 0 /\ Len(NoWindow.hits) = 0 /\ NoWindow.at = "closed"
    BY DEF NoWindow
  <1> QED BY <1>2, <1>3 DEF FindHolds, IndexHolds, HitsHold, GoesUp

LEMMA HitsAre ==
  ASSUME NEW w \in FindStates
  PROVE  /\ Hits(w) \in Seq(Nat) /\ GoesUp(Hits(w))
         /\ \A i \in 1..Len(Hits(w)) : Hits(w)[i] \in 1..Len(w.index) /\ Found(w, Hits(w)[i])
  <1> DEFINE n == Len(w.index)
             s == [i \in 1..n |-> i]
             P == {i \in 1..n : Found(w, i)}
  <1>1. w.index \in Seq(IndexRecords)
    BY DEF FindStates, IndexLists
  <1>2. n \in Nat /\ DOMAIN w.index = 1..n
    BY <1>1
  <1>3. Hits(w) = Keep(s, P)
    BY <1>2 DEF Hits
  <1> HIDE DEF n
  <1>4. s \in Seq(1..n) /\ Len(s) = n /\ (\A i \in 1..n : s[i] = i) /\ P \subseteq 1..n
    BY <1>2
  <1> HIDE DEF s
  <1>5. /\ Keep(s, P) \in Seq(1..n)
        /\ \A i \in 1..Len(Keep(s, P)) : Keep(s, P)[i] \in P
        /\ \A i, j \in 1..Len(Keep(s, P)) : i < j => Keep(s, P)[i] < Keep(s, P)[j]
    <2> HIDE DEF P
    <2> QED BY <1>2, <1>4, KeptGoUp
  <1>6. Keep(s, P) \in Seq(Nat)
    <2>1. 1..n \subseteq Nat
      OBVIOUS
    <2> QED BY <1>5, <2>1, SeqMonotonic
  <1> QED BY <1>3, <1>5, <1>6 DEF GoesUp, n

(* A search over the index leaves a list that begins at its first hit.     *)
LEMMA Searched ==
  ASSUME NEW w \in FindStates, IndexHolds(w), NEW v, v = FindFileFromIndex(w)
  PROVE  /\ v \in FindStates /\ IndexHolds(v) /\ HitsHold(v) /\ AllFound(v)
         /\ v.first = 1 /\ v.select = 1 /\ v.at = w.at /\ v.height = w.height
  <1> DEFINE h == Hits(w)
  <1>1. /\ h \in HitLists /\ GoesUp(h)
        /\ \A i \in 1..Len(h) : h[i] \in 1..Len(w.index) /\ Found(w, h[i])
    BY HitsAre DEF HitLists
  <1>2. v = [w EXCEPT !.hits = h, !.first = 1, !.select = 1, !.below = FALSE]
    BY DEF FindFileFromIndex
  <1> HIDE DEF h
  <1>3. /\ v \in FindStates /\ v.hits = h /\ v.first = 1 /\ v.select = 1
        /\ v.at = w.at /\ v.index = w.index /\ v.typed = w.typed /\ v.marks = w.marks
        /\ v.height = w.height
    <2> DEFINE u == [w EXCEPT !.hits = h, !.below = FALSE]
    <2>1. u \in FindStates
      <3>1. h \in HitLists
        BY <1>1
      <3> QED BY <3>1 DEF FindStates
    <2>2. v = [u EXCEPT !.first = 1, !.select = 1]
      BY <1>2 DEF FindStates
    <2>3. /\ u.hits = h /\ u.at = w.at /\ u.index = w.index /\ u.typed = w.typed
          /\ u.marks = w.marks /\ u.height = w.height
      BY DEF FindStates
    <2> HIDE DEF u
    <2>4. v \in FindStates
      <3>1. 1 \in Int
        OBVIOUS
      <3> QED BY <2>1, <2>2, <3>1, Zenon DEF FindStates
    <2>5. /\ v.hits = u.hits /\ v.first = 1 /\ v.select = 1 /\ v.at = u.at
          /\ v.index = u.index /\ v.typed = u.typed /\ v.marks = u.marks
          /\ v.height = u.height
      BY <2>1, <2>2 DEF FindStates
    <2> QED BY <2>3, <2>4, <2>5
  <1>4. \A i : Found(v, i) <=> Found(w, i)
    BY <1>3 DEF Found
  <1> QED BY <1>1, <1>3, <1>4 DEF IndexHolds, HitsHold, AllFound

LEMMA PaintedHolds ==
  ASSUME NEW w, FindHolds(w)
  PROVE  FindHolds(PaintHits(w))
  <1> DEFINE c == [w EXCEPT !.at = "crash"]
  <1>1. PaintHits(w) = w \/ PaintHits(w) = c
    BY DEF PaintHits
  <1>2. w \in FindStates /\ IndexHolds(w) /\ HitsHold(w)
    BY DEF FindHolds
  <1>3. /\ c \in FindStates /\ c.at = "crash" /\ c.marks = w.marks /\ c.index = w.index
        /\ c.hits = w.hits
    BY <1>2 DEF FindStates, FindPlaces
  <1> HIDE DEF c
  <1>4. FindHolds(c)
    BY <1>2, <1>3 DEF FindHolds, IndexHolds, HitsHold
  <1> QED BY <1>1, <1>4

(* What does not touch the index, the hits or the place in the list, and   *)
(* is not in the list.                                                     *)
LEMMA SameHits ==
  ASSUME NEW w, FindHolds(w), NEW v \in FindStates, v.at # "list",
         v.marks = w.marks, v.index = w.index, v.hits = w.hits
  PROVE  FindHolds(v)
  BY DEF FindHolds, IndexHolds, HitsHold

LEMMA OpenedHolds ==
  ASSUME FindHolds(finding), NEW search, search.marks \in Seq(Range(search.marks)),
         NEW down
  PROVE  FindHolds(OpenIndex(finding, IndexFile(search, down), Len(search.marks)))
  <1> DEFINE index == Loaded(IndexFile(search, down))
             m == Len(search.marks)
             w == [finding EXCEPT !.index = index, !.marks = m, !.at = "file"]
  <1>1. /\ index \in IndexLists /\ m \in Nat
        /\ m <= 1 => \A i \in 1..Len(index) : IsOfFile(index[i])
    BY IndexIs DEF IndexLists
  <1>2. \/ OpenIndex(finding, IndexFile(search, down), m) = NoWindow
        \/ OpenIndex(finding, IndexFile(search, down), m) = FindFileFromIndex(w)
    BY DEF OpenIndex
  <1> HIDE DEF index, m
  <1>3. w \in FindStates /\ w.index = index /\ w.marks = m /\ w.at = "file"
    <2>1. index \in IndexLists /\ m \in Nat /\ finding \in FindStates
      BY <1>1 DEF FindHolds
    <2> QED BY <2>1 DEF FindStates, FindPlaces, FieldSet
  <1> HIDE DEF w
  <1>4. IndexHolds(w)
    BY <1>1, <1>3 DEF IndexHolds
  <1>5. FindHolds(FindFileFromIndex(w))
    <2> DEFINE v == FindFileFromIndex(w)
    <2>1. v \in FindStates /\ IndexHolds(v) /\ HitsHold(v) /\ v.at = "file"
      BY <1>3, <1>4, Searched
    <2> HIDE DEF v
    <2>2. FindHolds(v)
      BY <2>1 DEF FindHolds
    <2> QED BY <2>2 DEF v
  <1> QED BY <1>2, <1>5, NoWindowHolds DEF m

(* The first window.                                                       *)
LEMMA AskSteps ==
  ASSUME FindHolds(finding),
         FindOpen \/ FindName \/ FindTab \/ FindClose \/ FindCancel \/ QuickFind \/ SlowFind
  PROVE  FindHolds(finding')
  <1>1. finding \in FindStates
    BY DEF FindHolds
  <1>2. CASE FindOpen
    <2> DEFINE v == [NoWindow EXCEPT !.at = "ask"]
    <2>1. NoWindow \in FindStates
      BY NoWindowHolds DEF FindHolds
    <2>2. /\ v \in FindStates /\ v.at = "ask" /\ v.marks = NoWindow.marks
          /\ v.index = NoWindow.index /\ v.hits = NoWindow.hits
      BY <2>1 DEF FindStates, FindPlaces
    <2> HIDE DEF v
    <2>3. FindHolds(v)
      BY <2>2, NoWindowHolds, SameHits
    <2> QED BY <1>2, <2>3 DEF FindOpen, v
  <1>3. CASE FindName
    <2>1. PICK q \in Queries :
            finding' = [finding EXCEPT !.typed.file = q, !.button = 3]
      BY <1>3 DEF FindName
    <2> DEFINE t == [finding.typed EXCEPT !["file"] = q]
    <2>3. finding.typed \in Typings
      BY <1>1 DEF FindStates
    <2>4. t \in Typings /\ 3 \in Buttons
      <3>1. 3 \in Buttons
        BY DEF Buttons
      <3>2. q \in Queries
        OBVIOUS
      <3>3. t \in Typings
        BY <2>3, <3>2, Zenon DEF Typings
      <3> QED BY <3>1, <3>3
    <2>5. finding' = [finding EXCEPT !.typed = t, !.button = 3]
      BY <1>1, <2>1 DEF FindStates
    <2> HIDE DEF t
    <2>2. /\ finding' \in FindStates /\ finding'.at = finding.at
          /\ finding'.marks = finding.marks /\ finding'.index = finding.index
          /\ finding'.hits = finding.hits
      BY <1>1, <2>4, <2>5 DEF FindStates
    <2>6. finding.at = "ask"
      BY <1>3 DEF FindName
    <2> QED BY <2>2, <2>6, SameHits
  <1>4. CASE FindTab
    <2>1. finding.at = "ask" /\ finding.button \in Buttons
          /\ finding' = [finding EXCEPT !.button = IF @ = 1 THEN 4 ELSE @ - 1]
      BY <1>1, <1>4 DEF FindTab, FindStates
    <2>3. (IF finding.button = 1 THEN 4 ELSE finding.button - 1) \in Buttons
      BY <2>1 DEF Buttons
    <2>2. /\ finding' \in FindStates /\ finding'.at = finding.at
          /\ finding'.marks = finding.marks /\ finding'.index = finding.index
          /\ finding'.hits = finding.hits
      BY <1>1, <2>1, <2>3 DEF FindStates
    <2> QED BY <2>1, <2>2, SameHits
  <1>5. CASE FindClose \/ FindCancel
    BY <1>5, NoWindowHolds DEF FindClose, FindCancel
  <1>6. CASE QuickFind
    <2> DEFINE none == <<>>
               s == [path |-> <<>>, marks |-> none]
    <2>1. Len(none) = 0 /\ none \in Seq(Range(none))
      OBVIOUS
    <2>2. s.marks = none
      OBVIOUS
    <2>3. \/ finding' = NoWindow
          \/ finding' = OpenIndex(finding, IndexFile(s, {}), 0)
      BY <1>6 DEF QuickFind, FindClose
    <2> HIDE DEF s, none
    <2>4. s.marks \in Seq(Range(s.marks)) /\ Len(s.marks) = 0
      BY <2>1, <2>2
    <2>5. FindHolds(OpenIndex(finding, IndexFile(s, {}), Len(s.marks)))
      BY <2>4, OpenedHolds
    <2> QED BY <2>3, <2>4, <2>5, NoWindowHolds
  <1>7. CASE SlowFind
    <2>1. PICK s \in Searches : \E down \in {{}} \cup {{p} : p \in DOMAIN Network} :
            finding' = OpenIndex(finding, IndexFile(s, down), Len(s.marks))
      BY <1>7 DEF SlowFind
    <2>2. PICK down : finding' = OpenIndex(finding, IndexFile(s, down), Len(s.marks))
      BY <2>1
    <2>3. s.marks \in Seq(Range(s.marks))
      BY FindAssumption
    <2> QED BY <2>2, <2>3, OpenedHolds
  <1> QED BY <1>2, <1>3, <1>4, <1>5, <1>6, <1>7

(* The fields of the second window.                                        *)
FieldIn == finding.at \in FieldSet

LEMMA FieldsAre == InField => FieldIn
  BY DEF InField, FieldIn, FieldNames, FieldSet

LEMMA TypeStep ==
  ASSUME FindHolds(finding), FindType
  PROVE  FindHolds(finding')
  <1>1. finding \in FindStates /\ finding.at \in FieldSet /\ finding.at # "list"
    BY FieldsAre DEF FindHolds, FindType, FieldIn, FieldSet
  <1>2. PICK q \in Queries :
          LET w == [finding EXCEPT !.typed[finding.at] = q]
          IN  finding' = PaintHits(
                IF w.live \/ w.at = "file" THEN FindFileFromIndex(w) ELSE w)
    BY DEF FindType
  <1> DEFINE t == [finding.typed EXCEPT ![finding.at] = q]
             w == [finding EXCEPT !.typed = t]
  <1>3. w = [finding EXCEPT !.typed[finding.at] = q]
    BY <1>1 DEF FindStates
  <1>4. t \in Typings
    <2>1. finding.typed \in Typings
      BY <1>1 DEF FindStates
    <2>2. q \in Queries
      OBVIOUS
    <2> QED BY <2>1, <2>2, Zenon DEF Typings
  <1> HIDE DEF t
  <1>5. /\ w \in FindStates /\ w.at = finding.at /\ w.marks = finding.marks
        /\ w.index = finding.index /\ w.hits = finding.hits
    BY <1>1, <1>4 DEF FindStates
  <1>6. finding' = PaintHits(IF w.live \/ w.at = "file" THEN FindFileFromIndex(w) ELSE w)
    BY <1>2, <1>3
  <1> HIDE DEF w
  <1>7. FindHolds(w)
    BY <1>1, <1>5, SameHits
  <1> DEFINE v == FindFileFromIndex(w)
  <1>8. v \in FindStates /\ IndexHolds(v) /\ HitsHold(v) /\ v.at = w.at
    BY <1>7, Searched DEF FindHolds
  <1>9. finding' = PaintHits(v) \/ finding' = PaintHits(w)
    BY <1>6
  <1> HIDE DEF v
  <1>10. FindHolds(v)
    BY <1>1, <1>5, <1>8 DEF FindHolds
  <1> QED BY <1>7, <1>9, <1>10, PaintedHolds

LEMMA FilterStep ==
  ASSUME FindHolds(finding), FindFilter
  PROVE  FindHolds(finding')
  <1>1. finding \in FindStates /\ finding.at # "list"
    BY FieldsAre DEF FindHolds, FindFilter, FieldIn, FieldSet
  <1>2. finding' = [finding EXCEPT !.live = ~finding.live]
    BY DEF FindFilter
  <1> DEFINE b == ~finding.live
  <1>3. b \in BOOLEAN
    OBVIOUS
  <1> HIDE DEF b
  <1>4. finding' = [finding EXCEPT !.live = b]
    BY <1>2 DEF b
  <1>5. /\ finding' \in FindStates /\ finding'.at = finding.at
        /\ finding'.marks = finding.marks /\ finding'.index = finding.index
        /\ finding'.hits = finding.hits
    BY <1>1, <1>3, <1>4 DEF FindStates
  <1> QED BY <1>1, <1>5, SameHits

LEMMA HeightsAre == \A h \in Heights : h \in Nat /\ h >= 1
  <1>1. Heights \subseteq Nat \ {0}
    BY FindAssumption
  <1> QED BY <1>1

LEMMA NextStep ==
  ASSUME FindHolds(finding), FindNext
  PROVE  FindHolds(finding')
  <1> DEFINE w == FindFileFromIndex(finding)
  <1>1. /\ w \in FindStates /\ IndexHolds(w) /\ HitsHold(w) /\ AllFound(w)
        /\ w.first = 1 /\ w.select = 1 /\ w.height = finding.height
    BY Searched DEF FindHolds
  <1>2. PICK x : /\ finding' = PaintHits([w EXCEPT !.at = x])
                 /\ x \in FieldSet \/ (x = "list" /\ w.hits # <<>>)
    <2> DEFINE i == CHOOSE j \in 1..4 : FieldNames[j] = finding.at
               x == IF i < 4 THEN FieldNames[i + 1]
                    ELSE IF w.hits = <<>> THEN "file" ELSE "list"
    <2>1. finding' = PaintHits([w EXCEPT !.at = x])
      BY DEF FindNext
    <2>2. i \in 1..4
      <3>1. \E j \in 1..4 : FieldNames[j] = finding.at
        BY DEF FindNext, InField
      <3> QED BY <3>1
    <2>3. x \in FieldSet \/ (x = "list" /\ w.hits # <<>>)
      <3> HIDE DEF i, w
      <3>1. i < 4 => FieldNames[i + 1] \in FieldSet
        BY <2>2 DEF FieldNames, FieldSet
      <3> QED BY <3>1 DEF FieldSet
    <2> HIDE DEF x
    <2> QED BY <2>1, <2>3
  <1> HIDE DEF w
  <1> DEFINE v == [w EXCEPT !.at = x]
  <1>3. /\ v \in FindStates /\ v.at = x /\ v.marks = w.marks /\ v.index = w.index
        /\ v.hits = w.hits /\ v.first = 1 /\ v.select = 1 /\ v.height = w.height
        /\ v.typed = w.typed
    <2>1. x \in FindPlaces
      BY <1>2 DEF FindPlaces
    <2> QED BY <1>1, <2>1 DEF FindStates
  <1>4. \A i : Found(v, i) <=> Found(w, i)
    BY <1>3 DEF Found
  <1> HIDE DEF v
  <1>5. IndexHolds(v) /\ HitsHold(v) /\ AllFound(v)
    BY <1>1, <1>3, <1>4 DEF IndexHolds, HitsHold, AllFound
  <1>6. x = "list" => ScrollHolds(v)
    <2> SUFFICES ASSUME x = "list" PROVE ScrollHolds(v)
      OBVIOUS
    <2>1. v.hits \in Seq(Nat) /\ v.hits # <<>>
      BY <1>2, <1>3 DEF FindStates, HitLists, FieldSet
    <2>2. Len(v.hits) \in Nat /\ Len(v.hits) >= 1
      BY <2>1
    <2>3. v.height \in Nat /\ v.height >= 1
      <3>1. v.height \in Heights
        BY <1>3 DEF FindStates
      <3>2. \A h \in Heights : h \in Nat /\ h >= 1
        BY HeightsAre
      <3> QED BY <3>1, <3>2, Zenon
    <2> QED BY <1>3, <2>2, <2>3 DEF ScrollHolds
  <1>7. FindHolds(v)
    BY <1>3, <1>5, <1>6 DEF FindHolds
  <1> QED BY <1>2, <1>7, PaintedHolds DEF v

LEMMA OtherFindSteps ==
  ASSUME FindHolds(finding), FindBack \/ FindTake \/ FindResize \/ FindQuit
  PROVE  FindHolds(finding')
  <1>1. finding \in FindStates /\ IndexHolds(finding) /\ HitsHold(finding)
    BY DEF FindHolds
  <1>2. CASE FindBack
    <2> DEFINE v == [finding EXCEPT !.at = "file"]
    <2>1. /\ v \in FindStates /\ v.at = "file" /\ v.marks = finding.marks
          /\ v.index = finding.index /\ v.hits = finding.hits
      BY <1>1 DEF FindStates, FindPlaces, FieldSet
    <2>2. finding' = PaintHits(v)
      BY <1>2 DEF FindBack
    <2> HIDE DEF v
    <2>3. FindHolds(v)
      BY <2>1, SameHits
    <2> QED BY <2>2, <2>3, PaintedHolds
  <1>3. CASE FindTake
    <2> DEFINE v == [finding EXCEPT !.at = "crash"]
    <2>1. /\ v \in FindStates /\ v.at = "crash" /\ v.marks = finding.marks
          /\ v.index = finding.index /\ v.hits = finding.hits
      BY <1>1 DEF FindStates, FindPlaces
    <2>2. finding' = NoWindow \/ finding' = v \/ finding' = PaintHits(finding)
      BY <1>3 DEF FindTake, FindClose
    <2> HIDE DEF v
    <2>3. FindHolds(v)
      BY <2>1, SameHits
    <2> QED BY <2>2, <2>3, PaintedHolds, NoWindowHolds
  <1>4. CASE FindResize
    <2>1. PICK h \in Heights :
            finding' = PaintHits([finding EXCEPT !.height = h, !.resized = TRUE])
      BY <1>4 DEF FindResize
    <2> DEFINE v == [finding EXCEPT !.height = h, !.resized = TRUE]
    <2>2. /\ v \in FindStates /\ v.at = finding.at /\ v.marks = finding.marks
          /\ v.index = finding.index /\ v.hits = finding.hits /\ v.resized = TRUE
          /\ v.first = finding.first /\ v.select = finding.select
          /\ v.typed = finding.typed
      BY <1>1 DEF FindStates
    <2> HIDE DEF v
    <2>3. \A i : Found(v, i) <=> Found(finding, i)
      BY <2>2 DEF Found
    <2>4. FindHolds(v)
      BY <2>2, <2>3 DEF FindHolds, IndexHolds, HitsHold, AllFound, ScrollHolds
    <2> QED BY <2>1, <2>4, PaintedHolds DEF v
  <1>5. CASE FindQuit
    BY <1>5, NoWindowHolds DEF FindQuit, FindClose
  <1> QED BY <1>2, <1>3, <1>4, <1>5

(* What only moves in the list.                                            *)
LEMMA MovedHolds ==
  ASSUME FindHolds(finding), finding.at = "list", NEW first \in Int, NEW select \in Int,
         NEW below \in BOOLEAN, 1 <= first, first <= select, select <= Len(finding.hits),
         finding.resized \/ below \/ select < first + finding.height,
         finding' = PaintHits([finding EXCEPT !.first = first, !.select = select,
                                              !.below = below])
  PROVE  FindHolds(finding')
  <1> DEFINE v == [finding EXCEPT !.first = first, !.select = select, !.below = below]
  <1>1. finding \in FindStates
    BY DEF FindHolds
  <1>2. /\ v \in FindStates /\ v.at = finding.at /\ v.marks = finding.marks
        /\ v.index = finding.index /\ v.hits = finding.hits
        /\ v.resized = finding.resized /\ v.height = finding.height
        /\ v.first = first /\ v.select = select /\ v.below = below
        /\ v.typed = finding.typed
    BY <1>1 DEF FindStates
  <1>3. finding' = PaintHits(v)
    OBVIOUS
  <1> HIDE DEF v
  <1>4. \A i : Found(v, i) <=> Found(finding, i)
    BY <1>2 DEF Found
  <1>5. ScrollHolds(v)
    BY <1>2 DEF ScrollHolds
  <1>6. FindHolds(v)
    BY <1>2, <1>4, <1>5 DEF FindHolds, IndexHolds, HitsHold, AllFound
  <1> QED BY <1>3, <1>6, PaintedHolds

(* The window follows the selection by one, or by a page.                  *)
LEMMA ScrollSteps ==
  ASSUME FindHolds(finding), FindDown \/ FindUp \/ FindPageDown \/ FindPageUp
  PROVE  FindHolds(finding')
  <1> DEFINE first == finding.first
             select == finding.select
             height == finding.height
             n == Len(finding.hits)
             Moved(f, s, b) == [finding EXCEPT !.first = f, !.select = s, !.below = b]
  <1>1. /\ finding \in FindStates /\ finding.at = "list"
        /\ ScrollHolds(finding)
    BY DEF FindHolds, FindDown, FindUp, FindPageDown, FindPageUp, Scrolls
  <1>2. /\ first \in Int /\ select \in Int /\ finding.below \in BOOLEAN
        /\ height \in Heights /\ finding.hits \in HitLists
    BY <1>1 DEF FindStates
  <1>3. height \in Nat /\ height >= 1
    BY <1>2, HeightsAre
  <1>4. n \in Nat
    BY <1>2 DEF HitLists
  <1>5. /\ 1 <= first /\ first <= select /\ select <= n
        /\ finding.resized \/ finding.below \/ select < first + height
    BY <1>1 DEF ScrollHolds
  <1>6. finding = Moved(first, select, finding.below)
    BY <1>1 DEF FindStates
  <1>7. ASSUME NEW f \in Int, NEW s \in Int, NEW b \in BOOLEAN,
               1 <= f, f <= s, s <= n, finding.resized \/ b \/ s < f + height,
               finding' = PaintHits(Moved(f, s, b))
        PROVE  FindHolds(finding')
    BY <1>1, <1>7, MovedHolds
  <1>8. CASE FindDown
    <2>1. finding' = PaintHits(HitDown(finding))
      BY <1>8 DEF FindDown, Scrolls
    <2>2. CASE select + 1 = first + height /\ first + height < n + 1
      <3>1. HitDown(finding) = Moved(first + 1, select + 1, finding.below)
        BY <1>1, <2>2 DEF HitDown, FindStates
      <3>2. /\ first + 1 \in Int /\ select + 1 \in Int /\ 1 <= first + 1
            /\ first + 1 <= select + 1 /\ select + 1 <= n
            /\ select + 1 < first + 1 + height
        BY <1>2, <1>3, <1>4, <1>5, <2>2
      <3> HIDE DEF first, select, height, n, Moved
      <3> QED BY <1>2, <1>7, <2>1, <3>1, <3>2
    <2>3. CASE /\ ~(select + 1 = first + height /\ first + height < n + 1)
               /\ select < n
      <3>1. HitDown(finding) = Moved(first, select + 1, finding.below)
        BY <1>1, <2>3 DEF HitDown, FindStates
      <3>2. /\ select + 1 \in Int /\ first <= select + 1 /\ select + 1 <= n
            /\ finding.resized \/ finding.below \/ select + 1 < first + height
        BY <1>2, <1>3, <1>4, <1>5, <2>3
      <3> HIDE DEF first, select, height, n, Moved
      <3> QED BY <1>2, <1>5, <1>7, <2>1, <3>1, <3>2
    <2>4. CASE /\ ~(select + 1 = first + height /\ first + height < n + 1)
               /\ ~(select < n)
      <3>1. HitDown(finding) = Moved(first, select, finding.below)
        BY <1>6, <2>4 DEF HitDown
      <3> HIDE DEF first, select, height, n, Moved
      <3> QED BY <1>2, <1>5, <1>7, <2>1, <3>1
    <2> QED BY <2>2, <2>3, <2>4
  <1>9. CASE FindUp
    <2>1. finding' = PaintHits(HitUp(finding))
      BY <1>9 DEF FindUp, Scrolls
    <2>2. CASE select = 1
      <3>1. HitUp(finding) = Moved(first, select, finding.below)
        BY <1>6, <2>2 DEF HitUp
      <3> HIDE DEF first, select, height, n, Moved
      <3> QED BY <1>2, <1>5, <1>7, <2>1, <3>1
    <2>3. CASE select # 1
      <3> DEFINE f == IF first > 1 /\ select = first THEN first - 1 ELSE first
      <3>1. HitUp(finding) = Moved(f, select - 1, finding.below)
        BY <1>1, <2>3 DEF HitUp, FindStates
      <3>2. /\ f \in Int /\ select - 1 \in Int /\ 1 <= f /\ f <= select - 1
            /\ select - 1 <= n
            /\ finding.resized \/ finding.below \/ select - 1 < f + height
        BY <1>2, <1>3, <1>4, <1>5, <2>3
      <3> HIDE DEF first, select, height, n, Moved, f
      <3> QED BY <1>2, <1>7, <2>1, <3>1, <3>2
    <2> QED BY <2>2, <2>3
  <1>10. CASE FindPageDown
    <2>1. finding' = PaintHits(HitPageDown(finding))
      BY <1>10 DEF FindPageDown, Scrolls
    <2>2. CASE first + height > n
      <3>1. HitPageDown(finding) = Moved(first, select, finding.below)
        BY <1>6, <2>2 DEF HitPageDown
      <3> HIDE DEF first, select, height, n, Moved
      <3> QED BY <1>2, <1>5, <1>7, <2>1, <3>1
    <2>3. CASE /\ ~(first + height > n) /\ select + 1 = first + height
               /\ select + height < n
      <3>1. HitPageDown(finding) = Moved(select, select + height - 1, finding.below)
        BY <1>1, <2>3 DEF HitPageDown, FindStates
      <3>2. /\ select + height - 1 \in Int /\ 1 <= select
            /\ select <= select + height - 1 /\ select + height - 1 <= n
            /\ select + height - 1 < select + height
        <4> HIDE DEF first, select, height, n, Moved
        <4> QED BY <1>2, <1>3, <1>4, <1>5, <2>3
      <3> HIDE DEF first, select, height, n, Moved
      <3> QED BY <1>2, <1>7, <2>1, <3>1, <3>2
    <2>4. CASE /\ ~(first + height > n) /\ select + 1 = first + height
               /\ ~(select + height < n)
      <3>1. HitPageDown(finding) = Moved(n - height, n - 1, finding.below)
        BY <1>1, <2>4 DEF HitPageDown, FindStates
      <3>2. /\ n - height \in Int /\ n - 1 \in Int /\ 1 <= n - height
            /\ n - height <= n - 1 /\ n - 1 <= n /\ n - 1 < n - height + height
        BY <1>2, <1>3, <1>4, <1>5, <2>4
      <3> HIDE DEF first, select, height, n, Moved
      <3> QED BY <1>2, <1>7, <2>1, <3>1, <3>2
    <2>5. CASE /\ ~(first + height > n) /\ select + 1 # first + height
               /\ select + height <= n
      <3>1. HitPageDown(finding) = Moved(first, first + height - 1, finding.below)
        BY <1>1, <2>5 DEF HitPageDown, FindStates
      <3>2. /\ first + height - 1 \in Int /\ first <= first + height - 1
            /\ first + height - 1 <= n /\ first + height - 1 < first + height
        BY <1>2, <1>3, <1>4, <1>5, <2>5
      <3> HIDE DEF first, select, height, n, Moved
      <3> QED BY <1>2, <1>5, <1>7, <2>1, <3>1, <3>2
    <2>6. CASE /\ ~(first + height > n) /\ select + 1 # first + height
               /\ ~(select + height <= n)
      <3>1. HitPageDown(finding) = Moved(first, n - 1, TRUE)
        BY <1>1, <2>6 DEF HitPageDown, FindStates
      <3>2. n - 1 \in Int /\ first <= n - 1 /\ n - 1 <= n
        BY <1>2, <1>3, <1>4, <1>5, <2>6
      <3> HIDE DEF first, select, height, n, Moved
      <3> QED BY <1>2, <1>5, <1>7, <2>1, <3>1, <3>2
    <2> QED BY <2>2, <2>3, <2>4, <2>5, <2>6
  <1>11. CASE FindPageUp
    <2>1. finding' = PaintHits(HitPageUp(finding))
      BY <1>11 DEF FindPageUp, Scrolls
    <2>2. CASE select = 1
      <3>1. HitPageUp(finding) = Moved(first, select, finding.below)
        BY <1>6, <2>2 DEF HitPageUp
      <3> HIDE DEF first, select, height, n, Moved
      <3> QED BY <1>2, <1>5, <1>7, <2>1, <3>1
    <2>3. CASE select # 1 /\ first # select
      <3>1. HitPageUp(finding) = Moved(first, first, FALSE)
        BY <1>1, <2>3 DEF HitPageUp, FindStates
      <3>2. first <= first /\ first <= n /\ first < first + height
        BY <1>2, <1>3, <1>4, <1>5
      <3> HIDE DEF first, select, height, n, Moved
      <3> QED BY <1>2, <1>5, <1>7, <2>1, <3>1, <3>2
    <2>4. CASE select # 1 /\ first = select /\ first - height < 1
      <3>1. HitPageUp(finding) = Moved(1, 1, finding.below)
        BY <1>1, <2>4 DEF HitPageUp, FindStates
      <3>2. 1 <= n /\ 1 < 1 + height
        BY <1>2, <1>3, <1>4, <1>5
      <3> HIDE DEF first, select, height, n, Moved
      <3> QED BY <1>2, <1>7, <2>1, <3>1, <3>2
    <2>5. CASE select # 1 /\ first = select /\ ~(first - height < 1)
      <3>1. HitPageUp(finding) =
              Moved(first - height + 1, first - height + 1, finding.below)
        BY <1>1, <2>5 DEF HitPageUp, FindStates
      <3>2. /\ first - height + 1 \in Int /\ 1 <= first - height + 1
            /\ first - height + 1 <= first - height + 1 /\ first - height + 1 <= n
            /\ first - height + 1 < first - height + 1 + height
        BY <1>2, <1>3, <1>4, <1>5, <2>5
      <3> HIDE DEF first, select, height, n, Moved
      <3> QED BY <1>2, <1>7, <2>1, <3>1, <3>2
    <2> QED BY <2>2, <2>3, <2>4, <2>5
  <1> QED BY <1>8, <1>9, <1>10, <1>11

(* The inductive invariant.                                                *)
FindInv == FindHolds(finding)

LEMMA InitFind == FindInit => FindInv
  BY NoWindowHolds DEF FindInit, FindInv

LEMMA FindStep == FindInv /\ [FindSteps]_findVars => FindInv'
  <1> SUFFICES ASSUME FindHolds(finding), [FindSteps]_findVars PROVE FindHolds(finding')
    BY DEF FindInv
  <1>1. CASE UNCHANGED findVars
    BY <1>1 DEF findVars
  <1>2. CASE FindSteps
    BY <1>2, AskSteps, TypeStep, FilterStep, NextStep, ScrollSteps, OtherFindSteps
       DEF FindSteps
  <1> QED BY <1>1, <1>2

(* What the index says is there is in the network in that place, whatever  *)
(* was walked over, whatever could not be opened and however deep it is:   *)
(* RcreateIndexFileOnline and RindexFileReadOneRecord agree on what they   *)
(* write and read.                                                         *)
THEOREM FoundIsThere == FindInit /\ [][FindSteps]_findVars => []IndexedAreFiles
  <1>1. FindInv => IndexedAreFiles
    <2> SUFFICES ASSUME FindHolds(finding), finding.marks <= 1, NEW i \in DOMAIN finding.index
                 PROVE  IsOfFile(finding.index[i])
      BY DEF FindInv, IndexedAreFiles, IsOfFile
    <2>1. finding.index \in IndexLists
      BY DEF FindHolds, FindStates
    <2>2. i \in 1..Len(finding.index)
      BY <2>1 DEF IndexLists
    <2> QED BY <2>2 DEF FindHolds, IndexHolds
  <1> QED BY <1>1, InitFind, FindStep, PTL

(* Every row in the list of the find window shows the record that Enter    *)
(* would take there, one in which all that was typed is found, and the     *)
(* selection is on such a record: for a window of any height and whatever  *)
(* was walked over, however it was scrolled.                               *)
THEOREM RowsShowHits == FindInit /\ [][FindSteps]_findVars => []RowsAreHits
  <1>1. FindInv => RowsAreHits
    <2> SUFFICES ASSUME FindHolds(finding), finding.at = "list", ~finding.resized
                 PROVE  /\ finding.select \in 1..Len(finding.hits)
                        /\ finding.below \/ finding.select \in RowsOf(finding)
                        /\ \A i \in RowsOf(finding) : i <= Len(finding.hits) =>
                             /\ PaintedRow(finding, i) = finding.hits[i]
                             /\ \A f \in DOMAIN finding.typed :
                                  finding.typed[f] \in {""} \cup
                                    Range(finding.index[finding.hits[i]][f])
      BY DEF FindInv, RowsAreHits
    <2>1. /\ finding \in FindStates /\ HitsHold(finding) /\ AllFound(finding)
          /\ ScrollHolds(finding)
      BY DEF FindHolds
    <2>2. /\ finding.first \in Int /\ finding.select \in Int
          /\ finding.height \in Heights /\ finding.hits \in HitLists
      BY <2>1 DEF FindStates
    <2>3. finding.height \in Nat
      BY <2>2, FindAssumption
    <2>4. Len(finding.hits) \in Nat /\ finding.hits \in Seq(Nat)
      BY <2>2 DEF HitLists
    <2>5. /\ finding.select \in 1..Len(finding.hits)
          /\ finding.first \in 1..Len(finding.hits)
          /\ finding.below \/ finding.select \in RowsOf(finding)
      BY <2>1, <2>2, <2>3, <2>4 DEF ScrollHolds, RowsOf
    <2>6. ASSUME NEW i \in RowsOf(finding), i <= Len(finding.hits)
          PROVE  /\ PaintedRow(finding, i) = finding.hits[i]
                 /\ \A f \in DOMAIN finding.typed :
                      finding.typed[f] \in {""} \cup
                        Range(finding.index[finding.hits[i]][f])
      <3>1. i \in finding.first..Len(finding.hits) /\ i \in 1..Len(finding.hits)
        BY <2>2, <2>3, <2>4, <2>5, <2>6 DEF RowsOf
      <3>2. PaintedRow(finding, i) = finding.hits[i]
        BY <2>1, <2>4, <2>5, <3>1, RowIsHit DEF HitsHold
      <3>3. Found(finding, finding.hits[i])
        BY <2>1, <3>1 DEF AllFound
      <3> QED BY <3>2, <3>3 DEF Found
    <2> QED BY <2>5, <2>6
  <1> QED BY <1>1, InitFind, FindStep, PTL
-----------------------------------------------------------------------------
(* NewIndex: the table of hosts has each host of the list.                 *)

WithHost(t, h) == IF h \in Range(t) THEN t ELSE Append(t, h)

LEMMA RangeIsElems ==
  ASSUME NEW S, NEW s \in Seq(S)
  PROVE  Range(s) = Elems(s)
  BY DEF Range, Elems

LEMMA WithHostIs ==
  ASSUME NEW S, NEW t \in Seq(S), NEW h \in S
  PROVE  WithHost(t, h) \in Seq(S) /\ Elems(WithHost(t, h)) = Elems(t) \cup {h}
  <1>1. Append(t, h) \in Seq(S) /\ Elems(Append(t, h)) = Elems(t) \cup {h}
    BY AppendElems
  <1>2. Range(t) = Elems(t)
    BY RangeIsElems
  <1> QED BY <1>1, <1>2 DEF WithHost

LEMMA HostsUpToIs ==
  ASSUME NEW S, NEW s \in Seq(S)
  PROVE  /\ HostsUpTo(s)[0] = <<>>
         /\ \A i \in 1..Len(s) : HostsUpTo(s)[i] = WithHost(HostsUpTo(s)[i - 1], s[i])
  <1> DEFINE n == Len(s)
             T == Seq(S)
             empty == <<>>
             Turn(i, t) == WithHost(t, s[i])
             next == [i \in 1..n |-> [t \in T |-> Turn(i, t)]]
             Body(f) == [i \in 0..n |-> IF i = 0 THEN empty ELSE Turn(i, f[i - 1])]
  <1>1. n \in Nat /\ empty \in T /\ \A i \in 1..n : s[i] \in S
    OBVIOUS
  <1>2. \A i \in 1..n : \A t \in T : Turn(i, t) \in T
    BY <1>1, WithHostIs
  <1> HIDE DEF n, T, empty, Turn
  <1>3. next \in Steps(n, T)
    BY <1>2 DEF Steps
  <1>4. PICK h : Follows(h, n, T, empty, next)
    <2> HIDE DEF next
    <2> QED BY <1>1, <1>3, Recursion
  <1>5. /\ h \in [0..n -> T] /\ h[0] = empty
        /\ \A i \in 1..n : h[i] = Turn(i, h[i - 1])
    <2>1. /\ h \in [0..n -> T] /\ h[0] = empty
          /\ \A i \in 1..n : h[i] = next[i][h[i - 1]]
      BY <1>4 DEF Follows
    <2>2. \A i \in 1..n : i - 1 \in 0..n
      BY <1>1
    <2> QED BY <2>1, <2>2
  <1>6. h = Body(h)
    <2>1. \A i \in 0..n : i = 0 \/ i \in 1..n
      BY <1>1
    <2>2. \A i \in 0..n : h[i] = IF i = 0 THEN empty ELSE Turn(i, h[i - 1])
      BY <1>5, <2>1
    <2>3. h = [i \in 0..n |-> h[i]]
      BY <1>5
    <2> QED BY <2>2, <2>3
  <1> DEFINE table == HostsUpTo(s)
  <1>7. table = Body(table)
    <2>1. table = CHOOSE g : g = Body(g)
      BY Zenon DEF HostsUpTo, Turn, WithHost, empty, n
    <2> HIDE DEF Body, table
    <2> QED BY <1>6, <2>1
  <1> HIDE DEF table
  <1>8. \A i \in 0..n : table[i] = IF i = 0 THEN empty ELSE Turn(i, table[i - 1])
    BY <1>7
  <1>9. 0 \in 0..n /\ \A i \in 1..n : i \in 0..n /\ i # 0
    BY <1>1
  <1> QED BY <1>8, <1>9 DEF table, n, empty, Turn

LEMMA TableIs ==
  ASSUME NEW S, NEW s \in Seq(S)
  PROVE  HostsTable(s) \in Seq(S) /\ Range(HostsTable(s)) = Range(s)
  <1> DEFINE n == Len(s)
             w == HostsUpTo(s)
             Q == {m \in 0..n : w[m] \in Seq(S) /\ Elems(w[m]) = {s[i] : i \in 1..m}}
  <1>1. n \in Nat /\ \A i \in 1..n : s[i] \in S
    OBVIOUS
  <1>2. w[0] = <<>> /\ \A i \in 1..n : w[i] = WithHost(w[i - 1], s[i])
    BY HostsUpToIs
  <1> HIDE DEF w, n
  <1>3. 0 \in Q
    <2>1. w[0] \in Seq(S) /\ Elems(w[0]) = {} /\ {s[i] : i \in 1..0} = {}
      BY <1>2 DEF Elems
    <2> QED BY <1>1, <2>1
  <1>4. ASSUME NEW m \in 0..n - 1, m \in Q
        PROVE  m + 1 \in Q
    <2>1. m + 1 \in 1..n /\ m + 1 \in 0..n /\ (m + 1) - 1 = m
      BY <1>1
    <2>2. w[m] \in Seq(S) /\ Elems(w[m]) = {s[i] : i \in 1..m} /\ s[m + 1] \in S
      BY <1>1, <1>4, <2>1
    <2>3. w[m + 1] = WithHost(w[m], s[m + 1])
      BY <1>2, <2>1
    <2>4. {s[i] : i \in 1..(m + 1)} = {s[i] : i \in 1..m} \cup {s[m + 1]}
      <3>1. \A i : i \in 1..(m + 1) <=> i \in 1..m \/ i = m + 1
        BY <2>1
      <3> QED BY <3>1
    <2>5. w[m + 1] \in Seq(S) /\ Elems(w[m + 1]) = Elems(w[m]) \cup {s[m + 1]}
      <3> DEFINE t == w[m]
                 h == s[m + 1]
      <3>1. t \in Seq(S) /\ h \in S /\ w[m + 1] = WithHost(t, h)
        BY <2>2, <2>3
      <3> HIDE DEF t, h
      <3>2. WithHost(t, h) \in Seq(S) /\ Elems(WithHost(t, h)) = Elems(t) \cup {h}
        BY <3>1, WithHostIs
      <3> QED BY <3>1, <3>2 DEF t, h
    <2> QED BY <2>1, <2>2, <2>4, <2>5
  <1>5. n \in Q
    <2>1. 0..n \subseteq Q
      <3> HIDE DEF Q
      <3> QED BY <1>1, <1>3, <1>4, UpTo
    <2>2. n \in 0..n
      BY <1>1
    <2> HIDE DEF Q
    <2> QED BY <2>1, <2>2
  <1>6. HostsTable(s) = w[n]
    BY DEF HostsTable, w, n
  <1>7. HostsTable(s) \in Seq(S) /\ Elems(HostsTable(s)) = {s[i] : i \in 1..n}
    BY <1>5, <1>6
  <1>8. Range(s) = {s[i] : i \in 1..n}
    BY RangeIsElems DEF Elems, n
  <1> QED BY <1>7, <1>8, RangeIsElems

(* What is told of two indexes is true of the new one.                     *)
ToldOf(tells, index) ==
  /\ tells.added \subseteq Range(index.hosts)
  /\ tells.removed \cap Range(index.hosts) = {}

LEMMA LackingIs ==
  ASSUME NEW S, NEW t \in Seq(S), NEW u
  PROVE  Range(Lacking(t, u)) = Range(t) \ Range(u)
  <1> DEFINE P == {i \in DOMAIN t : t[i] \notin Range(u)}
  <1>1. DOMAIN t = 1..Len(t) /\ P \subseteq 1..Len(t)
    OBVIOUS
  <1>2. Keep(t, P) \in Seq(S) /\ Elems(Keep(t, P)) = {t[i] : i \in P}
    <2> HIDE DEF P
    <2> QED BY <1>1, KeepIs
  <1>3. Lacking(t, u) = Keep(t, P)
    BY DEF Lacking
  <1>4. Range(Keep(t, P)) = Elems(Keep(t, P))
    <2> HIDE DEF P
    <2> QED BY <1>2, RangeIsElems
  <1>5. {t[i] : i \in P} = Range(t) \ Range(u)
    BY <1>1 DEF Range
  <1> QED BY <1>2, <1>3, <1>4, <1>5

LEMMA CompareIs ==
  ASSUME NEW S, NEW old, NEW new, old.hosts \in Seq(S), new.hosts \in Seq(S)
  PROVE  Compare(old, new).about = new.nr /\ ToldOf(Compare(old, new), new)
  <1>1. CASE old.nr = 0
    <2>1. Compare(old, new) = [about |-> new.nr, added |-> {}, removed |-> {}]
      BY <1>1 DEF Compare, Started
    <2> QED BY <2>1 DEF ToldOf
  <1>2. CASE old.nr # 0
    <2> DEFINE o == HostsTable(old.hosts)
               n == HostsTable(new.hosts)
    <2>1. /\ o \in Seq(S) /\ Range(o) = Range(old.hosts)
          /\ n \in Seq(S) /\ Range(n) = Range(new.hosts)
      BY TableIs
    <2>2. Compare(old, new) = [about |-> new.nr, added |-> Range(Lacking(n, o)),
                               removed |-> Range(Lacking(o, n))]
      BY <1>2 DEF Compare
    <2> HIDE DEF o, n
    <2>3. /\ Range(Lacking(n, o)) = Range(n) \ Range(o)
          /\ Range(Lacking(o, n)) = Range(o) \ Range(n)
      BY <2>1, LackingIs
    <2> QED BY <2>1, <2>2, <2>3 DEF ToldOf
  <1> QED BY <1>1, <1>2

AllHosts == UNION {Range(h) : h \in HostLists}
Settled == {0} \cup placed \cup halted

(* Numbers are given one after the other; an index in place is an earlier  *)
(* one than the one that is made.                                          *)
NumbersHold ==
  /\ walks \in Nat /\ newest.nr \in 0..walks /\ maker.made.nr \in 0..walks
  /\ message.tells.about \in 0..walks
  /\ newest.hosts \in Seq(AllHosts) /\ maker.made.hosts \in Seq(AllHosts)
  /\ maker.at \in {"message", "index"} => newest.nr < maker.made.nr

(* The message of the index that is made is true of it, first where it     *)
(* waits for its rename and then in place, when the index is not.          *)
MadeHolds ==
  /\ maker.at = "message" =>
       prime.about = maker.made.nr /\ ToldOf(prime, maker.made)
  /\ maker.at = "index" =>
       message.tells.about = maker.made.nr /\ ToldOf(message.tells, maker.made)
  /\ message.tells.about = newest.nr => ToldOf(message.tells, newest)

(* Only the message of the index whose rename is next tells of one that is *)
(* not in place.                                                           *)
AboutHolds ==
  /\ message.tells.about \in Settled \/ maker.at = "index"
  /\ status.tells.about \in
       Settled \cup (IF maker.at = "index" THEN {maker.made.nr} ELSE {})

NewIndexInv == NumbersHold /\ MadeHolds /\ AboutHolds

LEMMA InitNewIndex == NewIndexInit => NewIndexInv
  <1> SUFFICES ASSUME NewIndexInit PROVE NewIndexInv
    OBVIOUS
  <1>1. <<>> \in Seq(AllHosts) /\ 0 \in 0..0
    OBVIOUS
  <1> QED BY <1>1 DEF NewIndexInit, NewIndexInv, NumbersHold, MadeHolds, AboutHolds,
                      Started, NoIndex, ToldOf, Settled

LEMMA NewIndexStep == NewIndexInv /\ [NewIndexNext]_newIndexVars => NewIndexInv'
  <1> SUFFICES ASSUME NewIndexInv, [NewIndexNext]_newIndexVars PROVE NewIndexInv'
    OBVIOUS
  <1> USE DEF NewIndexInv, NumbersHold, MadeHolds, AboutHolds, Settled
  <1>1. CASE UNCHANGED newIndexVars
    BY <1>1 DEF newIndexVars, ToldOf
  <1>2. CASE ForkMaker
    <2>1. /\ maker.at = "none" /\ maker'.at = "start" /\ maker'.made.nr = 0
          /\ maker'.made.hosts = <<>> /\ newest'.nr = 0 /\ newest'.hosts = <<>>
          /\ message'.tells.about = 0 /\ message'.tells.added = {}
          /\ message'.tells.removed = {}
          /\ UNCHANGED <<walks, status, placed, halted>>
      BY <1>2 DEF ForkMaker, NoIndex, Started
    <2>2. <<>> \in Seq(AllHosts)
      OBVIOUS
    <2> QED BY <2>1, <2>2 DEF ToldOf
  <1>3. CASE TellStart
    <2>1. /\ message'.tells = Started /\ maker'.at = "walk" /\ maker'.made = maker.made
          /\ Started.about = 0 /\ ToldOf(Started, newest)
      BY <1>3 DEF TellStart, Started, ToldOf
    <2> QED BY <1>3, <2>1 DEF TellStart, ToldOf
  <1>4. CASE MakeIndex
    <2>1. PICK h \in HostLists :
            LET made == [nr |-> walks + 1, hosts |-> h]
            IN  maker' = [at |-> "message", made |-> made] /\ prime' = Compare(newest, made)
      BY <1>4 DEF MakeIndex
    <2> DEFINE made == [nr |-> walks + 1, hosts |-> h]
    <2>2. h \in Seq(AllHosts)
      <3>1. h \in Seq(Range(h))
        BY NewIndexAssumption
      <3>2. Range(h) \subseteq AllHosts
        BY DEF AllHosts
      <3> QED BY <3>1, <3>2
    <2>3. made.nr = walks + 1 /\ made.hosts = h
      OBVIOUS
    <2>4. Compare(newest, made).about = made.nr /\ ToldOf(Compare(newest, made), made)
      <3> HIDE DEF made
      <3> QED BY <2>2, <2>3, CompareIs
    <2>5. maker'.at = "message" /\ maker'.made = made /\ prime' = Compare(newest, made)
      BY <2>1
    <2> HIDE DEF made
    <2>6. /\ maker.at = "walk" /\ walks' = walks + 1
          /\ UNCHANGED <<newest, message, status, placed, halted>>
      BY <1>4 DEF MakeIndex
    <2>7. NumbersHold'
      BY <2>2, <2>3, <2>5, <2>6
    <2>8. MadeHolds'
      BY <2>4, <2>5, <2>6 DEF ToldOf
    <2>9. AboutHolds'
      BY <2>5, <2>6
    <2> QED BY <2>7, <2>8, <2>9
  <1>5. CASE RenameMessage
    <2>1. /\ maker.at = "message" /\ maker'.at = "index" /\ maker'.made = maker.made
          /\ message'.tells = prime
          /\ UNCHANGED <<newest, walks, prime, status, placed, halted>>
      BY <1>5 DEF RenameMessage
    <2> QED BY <2>1 DEF ToldOf
  <1>6. CASE RenameIndex
    <2>1. /\ maker.at = "index" /\ maker'.at = "walk" /\ maker'.made = maker.made
          /\ newest' = maker.made /\ placed' = placed \cup {maker.made.nr}
          /\ UNCHANGED <<walks, prime, message, status, halted>>
      BY <1>6 DEF RenameIndex
    <2> QED BY <2>1 DEF ToldOf
  <1>7. CASE KillMaker
    <2>1. /\ maker'.at = "none" /\ maker'.made.nr = 0 /\ maker'.made.hosts = <<>>
          /\ halted' = IF maker.at = "index" THEN halted \cup {maker.made.nr} ELSE halted
          /\ UNCHANGED <<newest, walks, prime, message, status, placed>>
      BY <1>7 DEF KillMaker, NoIndex
    <2>2. <<>> \in Seq(AllHosts)
      OBVIOUS
    <2> QED BY <2>1, <2>2 DEF ToldOf
  <1>8. CASE CheckMessage
    <2>1. /\ status'.tells = message.tells
          /\ UNCHANGED <<maker, newest, walks, prime, message, placed, halted>>
      BY <1>8 DEF CheckMessage
    <2> QED BY <2>1 DEF ToldOf
  <1>9. CASE NextSecond
    BY <1>9 DEF NextSecond, ToldOf
  <1> QED BY <1>1, <1>2, <1>3, <1>4, <1>5, <1>6, <1>7, <1>8, <1>9 DEF NewIndexNext

(* The status line tells only of an index that is, was or is about to be   *)
(* in place, or of one whose indexer was killed between its two renames,   *)
(* and the message says what is true of the index it tells of: for any     *)
(* hosts that come and go, however often indexers are killed.              *)
THEOREM StatusTellsOfIndex == NewIndexInit /\ [][NewIndexNext]_newIndexVars => []TellsOfIndex
  <1>1. NewIndexInv => TellsOfIndex
    BY DEF NewIndexInv, NumbersHold, MadeHolds, AboutHolds, Settled, TellsOfIndex, ToldOf
  <1> QED BY <1>1, InitNewIndex, NewIndexStep, PTL
-----------------------------------------------------------------------------
(* Viewer: what the page holds.                                            *)

LEMMA UpToZeroIs ==
  ASSUME NEW S, NEW s \in Seq(S)
  PROVE  /\ UpToZero(s) \in Seq(S) /\ Len(UpToZero(s)) <= Len(s)
         /\ \A i \in 1..Len(UpToZero(s)) : UpToZero(s)[i] = s[i] /\ s[i] # "zero"
         /\ Len(UpToZero(s)) < Len(s) => s[Len(UpToZero(s)) + 1] = "zero"
  <1> DEFINE n == Len(s)
             zeros == {i \in DOMAIN s : s[i] = "zero"}
             Least(i) == i \in zeros /\ \A j \in zeros : i <= j
  <1>1. n \in Nat /\ DOMAIN s = 1..n
    OBVIOUS
  <1>2. CASE zeros = {}
    <2>1. UpToZero(s) = s
      BY <1>2 DEF UpToZero
    <2> QED BY <1>1, <1>2, <2>1
  <1>3. CASE zeros # {}
    <2>1. \E i : Least(i)
      <3>1. zeros \subseteq Nat
        BY <1>1
      <3> HIDE DEF zeros
      <3> QED BY <1>3, <3>1, LeastNumber
    <2> DEFINE c == CHOOSE i : Least(i)
               d == CHOOSE i \in zeros : \A j \in zeros : i <= j
    <2>2. c = d
      OBVIOUS
    <2>3. Least(c)
      <3> HIDE DEF Least
      <3> QED BY <2>1
    <2> HIDE DEF c
    <2>4. UpToZero(s) = SubSeq(s, 1, c - 1)
      BY <1>3, <2>2 DEF UpToZero
    <2>5. c \in 1..n /\ s[c] = "zero" /\ \A j \in 1..n : s[j] = "zero" => c <= j
      BY <1>1, <2>3
    <2> HIDE DEF zeros, Least, d
    <2>6. c - 1 \in Nat /\ c - 1 <= n
      BY <1>1, <2>5
    <2>7. /\ SubSeq(s, 1, c - 1) \in Seq(S) /\ Len(SubSeq(s, 1, c - 1)) = c - 1
          /\ \A i \in 1..(c - 1) : SubSeq(s, 1, c - 1)[i] = s[i]
      <3>1. \A i \in 1..(c - 1) : s[i] \in S
        BY <2>5
      <3> QED BY <2>5, <2>6, <3>1
    <2> QED BY <1>1, <2>4, <2>5, <2>6, <2>7
  <1> QED BY <1>2, <1>3

(* What was read, and what follows it in memory.                           *)
Got(at) == [i \in 1..PageEnd(at) - at |-> text[at + i]]
Gotten(at) == {text[at + i] : i \in Int} \cup {"letter", "newline"}

LEMMA SizesAre ==
  ASSUME text \in Texts
  PROVE  Rsize \in Nat /\ Rtx \in Nat \ {0} /\ Rty \in Nat \ {0} /\ RwSize \in Nat
         /\ Rtx <= RwSize
  <1>1. /\ Rtx \in Nat \ {0} /\ Rty \in Nat \ {0}
        /\ Texts \subseteq Seq({"letter", "newline", "zero"})
    BY ViewAssumption
  <1>2. Len(text) \in Nat
    BY <1>1
  <1>3. Rtx * Rty \in Nat /\ Rtx <= Rtx * Rty
    <2>1. ASSUME NEW x \in Nat, NEW y \in Nat, y >= 1
          PROVE  x * y \in Nat /\ x <= x * y
      <3>1. x * y = x * (y - 1) + x /\ y - 1 \in Nat
        BY <2>1
      <3>2. x * (y - 1) \in Nat
        BY <3>1
      <3> QED BY <3>1, <3>2
    <2> QED BY <1>1, <2>1
  <1> QED BY <1>1, <1>2, <1>3 DEF Rsize, RwSize

LEMMA GotIs ==
  ASSUME text \in Texts, NEW at \in Int
  PROVE  /\ PageEnd(at) \in Int /\ PageEnd(at) - at \in Nat
         /\ Got(at) \in Seq(Gotten(at)) /\ Len(Got(at)) = PageEnd(at) - at
         /\ at <= Rsize => at + Len(Got(at)) <= Rsize
  <1>1. Rsize \in Nat /\ RwSize \in Nat
    BY SizesAre
  <1>2. /\ PageEnd(at) \in Int /\ PageEnd(at) - at \in Nat
        /\ at <= Rsize => PageEnd(at) <= Rsize
    BY <1>1 DEF PageEnd
  <1> DEFINE n == PageEnd(at) - at
  <1>3. \A i \in 1..n : text[at + i] \in Gotten(at)
    BY DEF Gotten
  <1>4. Got(at) = [i \in 1..n |-> text[at + i]]
    BY DEF Got
  <1>5. n \in Nat
    BY <1>2
  <1> HIDE DEF n
  <1>6. Got(at) \in Seq(Gotten(at)) /\ Len(Got(at)) = n
    BY <1>3, <1>4, <1>5
  <1> QED BY <1>2, <1>6 DEF n

LEMMA PageIs ==
  ASSUME text \in Texts, NEW at \in Int, NEW g \in Garbage
  PROVE  /\ Page(at, g) \in Seq(Gotten(at)) /\ Page(at, <<>>) \in Seq(Gotten(at))
         /\ Len(Page(at, <<>>)) <= Len(Page(at, g))
         /\ \A i \in 1..Len(Page(at, <<>>)) : Page(at, g)[i] = Page(at, <<>>)[i]
         /\ Len(Page(at, <<>>)) <= Len(Got(at))
         /\ Len(Page(at, g)) <= Len(Got(at)) \/ Len(Got(at)) = RwSize
  <1> DEFINE S == Gotten(at)
             got == Got(at)
             all == IF Len(got) = RwSize THEN got \o g ELSE got
             p == Page(at, <<>>)
             q == Page(at, g)
  <1>1. got \in Seq(S) /\ Len(got) \in Nat
    BY GotIs
  <1>2. g \in Seq(S)
    <2>1. g \in Seq({"letter", "newline"})
      BY ViewAssumption
    <2> QED BY <2>1 DEF Gotten
  <1> HIDE DEF S
  <1>3. /\ got \o g \in Seq(S) /\ Len(got \o g) >= Len(got)
        /\ \A i \in 1..Len(got) : (got \o g)[i] = got[i]
    <2> HIDE DEF got
    <2> QED BY <1>1, <1>2, ConcatProperties
  <1>4. got \o <<>> = got
    <2> HIDE DEF got
    <2> QED BY <1>1
  <1>5. q = UpToZero(all) /\ p = UpToZero(got)
    BY <1>4 DEF Page, Got
  <1>6. /\ all \in Seq(S) /\ Len(all) \in Nat /\ Len(all) >= Len(got)
        /\ \A i \in 1..Len(got) : all[i] = got[i]
        /\ Len(all) <= Len(got) \/ Len(got) = RwSize
    <2> HIDE DEF got
    <2> QED BY <1>1, <1>3
  <1> HIDE DEF all, got, p, q
  <1>7. /\ p \in Seq(S) /\ Len(p) <= Len(got) /\ Len(p) \in Nat
        /\ \A i \in 1..Len(p) : p[i] = got[i] /\ got[i] # "zero"
    BY <1>1, <1>5, UpToZeroIs
  <1>8. /\ q \in Seq(S) /\ Len(q) <= Len(all) /\ Len(q) \in Nat
        /\ \A i \in 1..Len(q) : q[i] = all[i]
        /\ Len(q) < Len(all) => all[Len(q) + 1] = "zero"
    BY <1>5, <1>6, UpToZeroIs
  <1>9. Len(p) <= Len(q)
    <2> SUFFICES ASSUME Len(q) < Len(p) PROVE FALSE
      BY <1>7, <1>8
    <2>1. /\ Len(q) + 1 \in 1..Len(p) /\ Len(q) + 1 \in 1..Len(got)
          /\ Len(q) < Len(all)
      BY <1>1, <1>6, <1>7, <1>8
    <2> QED BY <1>6, <1>7, <1>8, <2>1
  <1>10. \A i \in 1..Len(p) : q[i] = p[i]
    <2> SUFFICES ASSUME NEW i \in 1..Len(p) PROVE q[i] = p[i]
      OBVIOUS
    <2>1. i \in 1..Len(q) /\ i \in 1..Len(got)
      BY <1>1, <1>7, <1>8, <1>9
    <2> QED BY <1>6, <1>7, <1>8, <2>1
  <1>11. Len(q) <= Len(got) \/ Len(got) = RwSize
    BY <1>1, <1>6, <1>8
  <1> QED BY <1>7, <1>8, <1>9, <1>10, <1>11 DEF S, got, p, q
-----------------------------------------------------------------------------
(* Viewer: the loop over the page.                                         *)

PaintStates == [x : Nat, y : Nat, first : Nat, page : Nat]
PaintStart(first) == [x |-> 0, y |-> 0, first |-> first, page |-> 0]

LEMMA PaintedIs ==
  ASSUME text \in Texts, NEW wrap \in BOOLEAN, NEW first \in Nat, NEW S, NEW s \in Seq(S)
  PROVE  LET w == PagePainted(wrap, first, s)
         IN  /\ w \in [0..Len(s) -> PaintStates] /\ w[0] = PaintStart(first)
             /\ \A i \in 1..Len(s) : w[i] = PaintByte(wrap, w[i - 1], s[i])
  <1> DEFINE n == Len(s)
             T == PaintStates
             start == PaintStart(first)
             Turn(i, p) == PaintByte(wrap, p, s[i])
             next == [i \in 1..n |-> [p \in T |-> Turn(i, p)]]
             Body(f) == [i \in 0..n |-> IF i = 0 THEN start ELSE Turn(i, f[i - 1])]
  <1>1. n \in Nat /\ start \in T
    BY DEF PaintStates, PaintStart
  <1>2. \A i \in 1..n : \A p \in T : Turn(i, p) \in T
    <2> SUFFICES ASSUME NEW i \in 1..n, NEW p \in PaintStates, NEW b
                 PROVE  PaintByte(wrap, p, b) \in PaintStates
      OBVIOUS
    <2>1. p.x \in Nat /\ p.y \in Nat /\ p.first \in Nat /\ p.page \in Nat
      BY DEF PaintStates
    <2> QED BY <2>1, SizesAre DEF PaintByte, PaintStates
  <1> HIDE DEF n, T, start, Turn
  <1>3. next \in Steps(n, T)
    BY <1>2 DEF Steps
  <1>4. PICK h : Follows(h, n, T, start, next)
    <2> HIDE DEF next
    <2> QED BY <1>1, <1>3, Recursion
  <1>5. /\ h \in [0..n -> T] /\ h[0] = start
        /\ \A i \in 1..n : h[i] = Turn(i, h[i - 1])
    <2>1. /\ h \in [0..n -> T] /\ h[0] = start
          /\ \A i \in 1..n : h[i] = next[i][h[i - 1]]
      BY <1>4 DEF Follows
    <2>2. \A i \in 1..n : i - 1 \in 0..n
      BY <1>1
    <2> QED BY <2>1, <2>2
  <1>6. h = Body(h)
    <2>1. \A i \in 0..n : i = 0 \/ i \in 1..n
      BY <1>1
    <2>2. \A i \in 0..n : h[i] = IF i = 0 THEN start ELSE Turn(i, h[i - 1])
      BY <1>5, <2>1
    <2>3. h = [i \in 0..n |-> h[i]]
      BY <1>5
    <2> QED BY <2>2, <2>3
  <1> DEFINE w == PagePainted(wrap, first, s)
  <1>7. w = Body(w)
    <2>1. w = CHOOSE g : g = Body(g)
      BY Zenon DEF PagePainted, Turn, start, PaintStart, n
    <2> HIDE DEF Body, w
    <2> QED BY <1>6, <2>1
  <1> HIDE DEF w
  <1>8. DOMAIN w = 0..n /\ \A i \in 0..n : w[i] = IF i = 0 THEN start ELSE Turn(i, w[i - 1])
    BY <1>7
  <1>9. 0 \in 0..n /\ \A i \in 1..n : i \in 0..n /\ i # 0 /\ i - 1 \in 0..n - 1
    BY <1>1
  <1>10. w[0] = start /\ \A i \in 1..n : w[i] = Turn(i, w[i - 1])
    BY <1>8, <1>9
  <1>11. \A i \in 0..n : w[i] \in T
    <2> DEFINE Q == {i \in 0..n : w[i] \in T}
    <2>1. 0 \in Q
      BY <1>1, <1>9, <1>10
    <2>2. ASSUME NEW i \in 0..n - 1, i \in Q
          PROVE  i + 1 \in Q
      <3>1. i + 1 \in 1..n /\ i + 1 \in 0..n /\ (i + 1) - 1 = i
        BY <1>1
      <3>2. w[i + 1] = Turn(i + 1, w[i])
        BY <1>10, <3>1
      <3> QED BY <1>2, <2>2, <3>1, <3>2
    <2>3. 0..n \subseteq Q
      <3> HIDE DEF Q
      <3> QED BY <1>1, <2>1, <2>2, UpTo
    <2> QED BY <2>3
  <1>12. w \in [0..n -> T]
    BY <1>7, <1>8, <1>11
  <1> QED BY <1>10, <1>12 DEF w, n, T, start, Turn

(* Without wrapping the first line ends at the first newline of the page.  *)
LEMMA FirstNewline ==
  ASSUME text \in Texts, NEW first \in Nat, NEW S, NEW s \in Seq(S),
         NEW m \in 1..Len(s), s[m] = "newline"
  PROVE  Layout(FALSE, first, s).first \in 1..m
  <1> DEFINE n == Len(s)
             w == PagePainted(FALSE, first, s)
             Holds(i) == \/ w[i].y = 0 /\ w[i].x = i /\ \A j \in 1..i : s[j] # "newline"
                         \/ w[i].y >= 1 /\ w[i].first \in 1..i
                              /\ \A j \in 1..i : s[j] = "newline" => w[i].first <= j
             Q == {i \in 0..n : Holds(i)}
  <1>1. n \in Nat
    OBVIOUS
  <1>2. /\ w \in [0..n -> PaintStates] /\ w[0] = PaintStart(first)
        /\ \A i \in 1..n : w[i] = PaintByte(FALSE, w[i - 1], s[i])
    BY PaintedIs
  <1> HIDE DEF n, w
  <1>3. 0 \in Q
    BY <1>1, <1>2 DEF PaintStart
  <1>4. ASSUME NEW i \in 0..n - 1, i \in Q
        PROVE  i + 1 \in Q
    <2>1. i + 1 \in 1..n /\ i + 1 \in 0..n /\ (i + 1) - 1 = i /\ i \in 0..n
      BY <1>1
    <2>2. w[i] \in PaintStates /\ w[i + 1] = PaintByte(FALSE, w[i], s[i + 1])
      BY <1>2, <2>1
    <2> DEFINE p == w[i]
               r == w[i + 1]
               b == s[i + 1]
    <2>3. p.x \in Nat /\ p.y \in Nat /\ p.first \in Nat
      BY <2>2 DEF PaintStates
    <2>4. /\ r.x = (IF b = "newline" THEN 0 ELSE p.x + 1)
          /\ r.y = (IF b = "newline" THEN p.y + 1 ELSE p.y)
          /\ r.first = (IF p.y = 0 /\ b = "newline" THEN p.x + 1 ELSE p.first)
      <3> HIDE DEF p, b
      <3> QED BY <2>2 DEF PaintByte, p, b
    <2>5. \A j \in 1..(i + 1) : j \in 1..i \/ j = i + 1
      BY <2>1
    <2>6. Holds(i)
      BY <1>4
    <2> HIDE DEF p, r, Q
    <2>7. CASE p.y = 0 /\ p.x = i /\ \A j \in 1..i : s[j] # "newline"
      <3>1. CASE b = "newline"
        <4>1. r.y = 1 /\ r.first = i + 1
          BY <2>1, <2>4, <2>7, <3>1
        <4>2. \A j \in 1..(i + 1) : s[j] = "newline" => r.first <= j
          BY <2>5, <2>7, <4>1, <2>1
        <4> QED BY <2>1, <4>1, <4>2 DEF r, Q
      <3>2. CASE b # "newline"
        <4>1. r.y = 0 /\ r.x = i + 1
          BY <2>1, <2>4, <2>7, <3>2
        <4> QED BY <2>1, <2>5, <2>7, <3>2, <4>1 DEF r, Q
      <3> QED BY <3>1, <3>2
    <2>8. CASE p.y >= 1 /\ p.first \in 1..i /\ \A j \in 1..i : s[j] = "newline" => p.first <= j
      <3>1. r.y >= 1 /\ r.first = p.first
        BY <2>3, <2>4, <2>8
      <3>2. p.first \in 1..(i + 1) /\ p.first <= i + 1
        BY <2>1, <2>8
      <3>3. \A j \in 1..(i + 1) : s[j] = "newline" => p.first <= j
        BY <2>5, <2>8, <3>2
      <3> QED BY <2>1, <3>1, <3>2, <3>3 DEF r, Q
    <2> QED BY <2>6, <2>7, <2>8 DEF p
  <1>5. Holds(n)
    <2>1. 0..n \subseteq Q
      <3> HIDE DEF Q
      <3> QED BY <1>1, <1>3, <1>4, UpTo
    <2>2. n \in 0..n
      BY <1>1
    <2> HIDE DEF Holds
    <2> QED BY <2>1, <2>2
  <1>6. w[n] \in PaintStates
    BY <1>1, <1>2
  <1>7. w[n].first \in Nat
    BY <1>6 DEF PaintStates
  <1>8. m \in 1..n
    BY DEF n
  <1>9. w[n].first \in 1..m
    BY <1>5, <1>7, <1>8
  <1> QED BY <1>9 DEF Layout, w, n

(* With wrapping it ends there or where the window does.                   *)
LEMMA FirstWrapped ==
  ASSUME text \in Texts, NEW first \in Nat, NEW S, NEW s \in Seq(S), s # <<>>
  PROVE  Layout(TRUE, first, s).first \in 1..Len(s) /\ Layout(TRUE, first, s).first <= Rtx
  <1> DEFINE n == Len(s)
             w == PagePainted(TRUE, first, s)
             Holds(i) == \/ w[i].y = 0 /\ w[i].x = i /\ i <= Rtx /\ (i = 0 \/ w[i].first = i)
                         \/ w[i].y >= 1 /\ w[i].first \in 1..i /\ w[i].first <= Rtx
             Q == {i \in 0..n : Holds(i)}
  <1>1. n \in Nat /\ n >= 1 /\ Rtx \in Nat /\ Rtx >= 1
    BY SizesAre
  <1>2. /\ w \in [0..n -> PaintStates] /\ w[0] = PaintStart(first)
        /\ \A i \in 1..n : w[i] = PaintByte(TRUE, w[i - 1], s[i])
    BY PaintedIs
  <1> HIDE DEF n, w
  <1>3. 0 \in Q
    BY <1>1, <1>2 DEF PaintStart
  <1>4. ASSUME NEW i \in 0..n - 1, i \in Q
        PROVE  i + 1 \in Q
    <2>1. i + 1 \in 1..n /\ i + 1 \in 0..n /\ (i + 1) - 1 = i /\ i \in 0..n
      BY <1>1
    <2>2. w[i] \in PaintStates /\ w[i + 1] = PaintByte(TRUE, w[i], s[i + 1])
      BY <1>2, <2>1
    <2> DEFINE p == w[i]
               r == w[i + 1]
               b == s[i + 1]
               y == IF p.x = Rtx THEN p.y + 1 ELSE p.y
               x == IF p.x = Rtx THEN 0 ELSE p.x
    <2>3. p.x \in Nat /\ p.y \in Nat /\ p.first \in Nat
      BY <2>2 DEF PaintStates
    <2>4. /\ r.x = (IF b = "newline" THEN 0 ELSE x + 1)
          /\ r.y = (IF b = "newline" THEN y + 1 ELSE y)
          /\ r.first = (IF p.y = 0 THEN IF p.x = Rtx THEN p.x ELSE p.x + 1 ELSE p.first)
      <3> HIDE DEF p, b
      <3> QED BY <2>2 DEF PaintByte, p, b
    <2>5. Holds(i)
      BY <1>4
    <2> HIDE DEF p, r, b, Q
    <2>6. CASE p.y = 0 /\ p.x = i /\ i <= Rtx
      <3>1. CASE i = Rtx
        <4>1. r.y >= 1 /\ r.first = i /\ i >= 1
          BY <1>1, <2>1, <2>3, <2>4, <2>6, <3>1
        <4> QED BY <2>1, <2>6, <4>1 DEF r, Q
      <3>2. CASE i # Rtx
        <4>1. r.first = i + 1 /\ i + 1 <= Rtx
          BY <1>1, <2>1, <2>3, <2>4, <2>6, <3>2
        <4>2. (r.y = 0 /\ r.x = i + 1) \/ r.y = 1
          BY <1>1, <2>1, <2>3, <2>4, <2>6, <3>2
        <4> QED BY <2>1, <4>1, <4>2 DEF r, Q
      <3> QED BY <3>1, <3>2
    <2>7. CASE p.y >= 1 /\ p.first \in 1..i /\ p.first <= Rtx
      <3>1. r.y >= 1 /\ r.first = p.first
        BY <2>3, <2>4, <2>7
      <3>2. p.first \in 1..(i + 1)
        BY <2>1, <2>7
      <3> QED BY <2>1, <2>7, <3>1, <3>2 DEF r, Q
    <2> QED BY <2>5, <2>6, <2>7 DEF p
  <1>5. Holds(n)
    <2>1. 0..n \subseteq Q
      <3> HIDE DEF Q
      <3> QED BY <1>1, <1>3, <1>4, UpTo
    <2>2. n \in 0..n
      BY <1>1
    <2> HIDE DEF Holds
    <2> QED BY <2>1, <2>2
  <1>6. w[n].first \in 1..n /\ w[n].first <= Rtx
    BY <1>1, <1>5
  <1> QED BY <1>6 DEF Layout, w, n

LEMMA LayoutTyped ==
  ASSUME text \in Texts, NEW wrap \in BOOLEAN, NEW first \in Nat, NEW S, NEW s \in Seq(S)
  PROVE  Layout(wrap, first, s).first \in Nat /\ Layout(wrap, first, s).page \in Nat
  <1> DEFINE w == PagePainted(wrap, first, s)
  <1>1. w \in [0..Len(s) -> PaintStates] /\ Len(s) \in 0..Len(s)
    BY PaintedIs
  <1> HIDE DEF w
  <1>2. w[Len(s)] \in PaintStates
    BY <1>1
  <1> QED BY <1>2 DEF PaintStates, Layout, w

(* The first line, if its end is in the page, is in the file.              *)
LEMMA FirstLineInFile ==
  ASSUME text \in Texts, NEW wrap \in BOOLEAN, NEW first \in Nat, NEW g \in Garbage,
         NEW at \in 0..Rsize,
         IF wrap THEN Page(at, <<>>) # <<>> ELSE "newline" \in ToSet(Page(at, <<>>))
  PROVE  at + Layout(wrap, first, Page(at, g)).first <= Rsize
  <1> DEFINE p == Page(at, <<>>)
             q == Page(at, g)
             S == Gotten(at)
             got == Got(at)
             line == Layout(wrap, first, q).first
  <1>1. Rsize \in Nat /\ Rtx \in Nat /\ RwSize \in Nat /\ Rtx <= RwSize
    BY SizesAre
  <1>2. at \in Int /\ at <= Rsize
    BY <1>1
  <1>3. at + Len(got) <= Rsize /\ got \in Seq(S)
    BY <1>2, GotIs
  <1>4. /\ q \in Seq(S) /\ p \in Seq(S) /\ Len(p) <= Len(q)
        /\ \A i \in 1..Len(p) : q[i] = p[i]
        /\ Len(p) <= Len(got) /\ (Len(q) <= Len(got) \/ Len(got) = RwSize)
    BY <1>2, PageIs
  <1> HIDE DEF p, q, S, got
  <1>5. Len(p) \in Nat /\ Len(q) \in Nat /\ Len(got) \in Nat
    BY <1>3, <1>4
  <1>6. line \in Nat
    <2> HIDE DEF line
    <2> QED BY <1>4, LayoutTyped DEF line
  <1>7. CASE wrap
    <2>1. p # <<>>
      BY <1>7 DEF p
    <2>2. Len(p) >= 1
      BY <1>4, <2>1
    <2>3. q # <<>>
      BY <1>4, <1>5, <2>2
    <2>4. wrap = TRUE
      BY <1>7
    <2>5. line \in 1..Len(q) /\ line <= Rtx
      BY <1>4, <2>3, <2>4, FirstWrapped
    <2> HIDE DEF line
    <2> QED BY <1>1, <1>2, <1>3, <1>4, <1>5, <1>6, <2>5 DEF line, q
  <1>8. CASE ~wrap
    <2>1. "newline" \in ToSet(p)
      BY <1>8 DEF p
    <2>2. PICK m \in 1..Len(p) : p[m] = "newline"
      BY <1>4, <2>1 DEF ToSet
    <2>3. m \in 1..Len(q) /\ q[m] = "newline"
      BY <1>4, <1>5, <2>2
    <2>4. wrap = FALSE
      BY <1>8
    <2>5. line \in 1..m
      BY <1>4, <2>3, <2>4, FirstNewline
    <2> HIDE DEF line
    <2> QED BY <1>1, <1>2, <1>3, <1>4, <1>5, <1>6, <2>2, <2>5 DEF line, q
  <1> QED BY <1>7, <1>8
-----------------------------------------------------------------------------
(* Viewer: the loops of Up and PageUp.                                     *)

Bytes == {text[i + 1] : i \in Int} \cup {byte}

LineStates == [seek : Int, byte : Bytes, at : Nat, over : BOOLEAN]
LineStart == [seek |-> Rseek, byte |-> byte, at |-> filepos, over |-> FALSE]
LineMove(s) == IF s.over THEN s ELSE LineTurn(s)

LEMMA LineTurnsAre ==
  ASSUME text \in Texts, Rseek \in Nat, filepos \in Nat
  PROVE  /\ LineTurns \in [0..Rseek -> LineStates] /\ LineTurns[0] = LineStart
         /\ \A i \in 1..Rseek : LineTurns[i] = LineMove(LineTurns[i - 1])
  <1> DEFINE n == Rseek
             T == LineStates
             start == LineStart
             Turn(s) == LineMove(s)
             next == [i \in 1..n |-> [s \in T |-> Turn(s)]]
             Body(f) == [i \in 0..n |-> IF i = 0 THEN start ELSE Turn(f[i - 1])]
  <1>1. n \in Nat /\ start \in T
    BY DEF LineStates, LineStart, Bytes
  <1>2. \A s \in T : Turn(s) \in T
    <2> SUFFICES ASSUME NEW s \in LineStates PROVE LineTurn(s) \in LineStates
      BY DEF LineMove
    <2> DEFINE down == s.seek - 1
               tmp  == IF Rseek - down = 1 THEN down - 1 ELSE down
               from == Sought(s.at, tmp)
               b    == ReadByte(from, s.byte)
               to   == IF b = "newline" THEN tmp + 1 ELSE tmp
    <2>1. s.seek \in Int /\ s.byte \in Bytes /\ s.at \in Nat
      BY DEF LineStates
    <2>2. down \in Int /\ tmp \in Int
      BY <2>1
    <2> HIDE DEF tmp
    <2>3. from \in Nat
      BY <2>1, <2>2 DEF Sought
    <2> HIDE DEF from
    <2>4. b \in Bytes
      <3>1. text[from + 1] \in Bytes
        BY <2>3 DEF Bytes
      <3> QED BY <2>1, <3>1 DEF ReadByte
    <2>5. to \in Int
      BY <2>2
    <2> HIDE DEF b, to
    <2> DEFINE at   == IF from < Rsize THEN from + 1 ELSE from
               over == tmp <= 0 \/ b = "newline" \/ Rseek - to > Rtx
    <2>6. at \in Nat
      BY <2>3
    <2>7. LineTurn(s) = [seek |-> to, byte |-> b, at |-> at, over |-> over]
      BY Zenon DEF LineTurn, tmp, from, b, to
    <2>8. over \in BOOLEAN
      OBVIOUS
    <2> HIDE DEF at, over
    <2> QED BY <2>4, <2>5, <2>6, <2>7, <2>8 DEF LineStates
  <1> HIDE DEF n, T, start, Turn
  <1>3. next \in Steps(n, T)
    BY <1>2 DEF Steps
  <1>4. PICK h : Follows(h, n, T, start, next)
    <2> HIDE DEF next
    <2> QED BY <1>1, <1>3, Recursion
  <1>5. /\ h \in [0..n -> T] /\ h[0] = start
        /\ \A i \in 1..n : h[i] = Turn(h[i - 1])
    <2>1. /\ h \in [0..n -> T] /\ h[0] = start
          /\ \A i \in 1..n : h[i] = next[i][h[i - 1]]
      BY <1>4 DEF Follows
    <2>2. \A i \in 1..n : i - 1 \in 0..n
      BY <1>1
    <2> QED BY <2>1, <2>2
  <1>6. h = Body(h)
    <2>1. \A i \in 0..n : i = 0 \/ i \in 1..n
      BY <1>1
    <2>2. \A i \in 0..n : h[i] = IF i = 0 THEN start ELSE Turn(h[i - 1])
      BY <1>5, <2>1
    <2>3. h = [i \in 0..n |-> h[i]]
      BY <1>5
    <2> QED BY <2>2, <2>3
  <1> DEFINE w == LineTurns
  <1>7. w = Body(w)
    <2>1. w = CHOOSE g : g = Body(g)
      BY Zenon DEF LineTurns, Turn, LineMove, start, LineStart, n
    <2> HIDE DEF Body, w
    <2> QED BY <1>6, <2>1
  <1> HIDE DEF w
  <1>8. DOMAIN w = 0..n /\ \A i \in 0..n : w[i] = IF i = 0 THEN start ELSE Turn(w[i - 1])
    BY <1>7
  <1>9. 0 \in 0..n /\ \A i \in 1..n : i \in 0..n /\ i # 0
    BY <1>1
  <1>10. w[0] = start /\ \A i \in 1..n : w[i] = Turn(w[i - 1])
    BY <1>8, <1>9
  <1>11. \A i \in 0..n : w[i] \in T
    <2> DEFINE Q == {i \in 0..n : w[i] \in T}
    <2>1. 0 \in Q
      BY <1>1, <1>9, <1>10
    <2>2. ASSUME NEW i \in 0..n - 1, i \in Q
          PROVE  i + 1 \in Q
      <3>1. i + 1 \in 1..n /\ i + 1 \in 0..n /\ (i + 1) - 1 = i
        BY <1>1
      <3>2. w[i + 1] = Turn(w[i])
        BY <1>10, <3>1
      <3> QED BY <1>2, <2>2, <3>1, <3>2
    <2>3. 0..n \subseteq Q
      <3> HIDE DEF Q
      <3> QED BY <1>1, <2>1, <2>2, UpTo
    <2> QED BY <2>3
  <1>12. w \in [0..n -> T]
    BY <1>7, <1>8, <1>11
  <1> QED BY <1>10, <1>12 DEF w, n, T, start, Turn

(* Up never leaves the file but from position 1.                           *)
LEMMA LineUpInside ==
  ASSUME text \in Texts, Rseek \in Nat, Rseek >= 2, filepos \in Nat
  PROVE  /\ LineTurns[Rseek].seek \in 0..Rseek /\ LineTurns[Rseek].at \in Nat
  <1> DEFINE n == Rseek
             w == LineTurns
             Holds(s) == s.seek \in 0..n /\ (s.over \/ s.seek >= 1)
             Q == {i \in 0..n : Holds(w[i])}
  <1>1. /\ w \in [0..n -> LineStates] /\ w[0] = LineStart
        /\ \A i \in 1..n : w[i] = LineMove(w[i - 1])
    BY LineTurnsAre
  <1> HIDE DEF w
  <1>2. 0 \in Q
    BY <1>1 DEF LineStart
  <1>3. ASSUME NEW i \in 0..n - 1, i \in Q
        PROVE  i + 1 \in Q
    <2>1. i + 1 \in 1..n /\ i + 1 \in 0..n /\ (i + 1) - 1 = i /\ i \in 0..n
      OBVIOUS
    <2>2. w[i] \in LineStates /\ w[i + 1] = LineMove(w[i]) /\ Holds(w[i])
      BY <1>1, <1>3, <2>1
    <2> DEFINE s == w[i]
    <2>3. CASE s.over
      <3>1. w[i + 1] = s
        BY <2>2, <2>3 DEF LineMove
      <3> QED BY <2>1, <2>2, <3>1
    <2>4. CASE ~s.over
      <3> DEFINE down == s.seek - 1
                 tmp  == IF Rseek - down = 1 THEN down - 1 ELSE down
                 b    == ReadByte(Sought(s.at, tmp), s.byte)
                 to   == IF b = "newline" THEN tmp + 1 ELSE tmp
      <3>1. s.seek \in 1..n
        BY <2>2, <2>4
      <3>2. tmp \in 0..(n - 1)
        BY <3>1
      <3>3. w[i + 1] = LineTurn(s)
        BY <2>2, <2>4 DEF LineMove
      <3>4. /\ LineTurn(s).seek = to
            /\ LineTurn(s).over = (tmp <= 0 \/ b = "newline" \/ Rseek - to > Rtx)
        BY DEF LineTurn
      <3> HIDE DEF tmp, b, s
      <3>5. to \in 0..n /\ (tmp <= 0 \/ b = "newline" \/ to >= 1)
        BY <3>2
      <3> HIDE DEF to
      <3>6. Holds(w[i + 1])
        BY <3>3, <3>4, <3>5
      <3> HIDE DEF Holds
      <3> QED BY <2>1, <3>6
    <2> QED BY <2>3, <2>4
  <1>4. n \in Q
    <2>1. 0..n \subseteq Q
      <3> HIDE DEF Q
      <3> QED BY <1>2, <1>3, UpTo
    <2> QED BY <2>1
  <1>5. w[n] \in LineStates
    BY <1>1
  <1> QED BY <1>4, <1>5 DEF w, LineStates

PageStates == [seek : Int, x : Nat, y : Nat, byte : Bytes, over : BOOLEAN]
PageStart == [seek |-> Rseek, x |-> 0, y |-> 0, byte |-> byte, over |-> FALSE]
PageMove(s) == IF s.over THEN s ELSE PageTurn(s)

LEMMA PageTurnsAre ==
  ASSUME text \in Texts, Rseek \in Nat
  PROVE  /\ PageTurns \in [0..Rseek -> PageStates] /\ PageTurns[0] = PageStart
         /\ \A i \in 1..Rseek : PageTurns[i] = PageMove(PageTurns[i - 1])
  <1> DEFINE n == Rseek
             T == PageStates
             start == PageStart
             Turn(s) == PageMove(s)
             next == [i \in 1..n |-> [s \in T |-> Turn(s)]]
             Body(f) == [i \in 0..n |-> IF i = 0 THEN start ELSE Turn(f[i - 1])]
  <1>1. n \in Nat /\ start \in T
    BY DEF PageStates, PageStart, Bytes
  <1>2. \A s \in T : Turn(s) \in T
    <2> SUFFICES ASSUME NEW s \in PageStates PROVE PageTurn(s) \in PageStates
      BY DEF PageMove
    <2> DEFINE tmp  == s.seek - 1
               b    == ReadByte(tmp, s.byte)
               ends == b = "newline" \/ s.x >= Rtx
               y    == IF ends THEN s.y + 1 ELSE s.y
               x    == IF ends THEN 1 ELSE s.x + 1
    <2>1. s.seek \in Int /\ s.byte \in Bytes /\ s.x \in Nat /\ s.y \in Nat
      BY DEF PageStates
    <2>2. tmp \in Int /\ x \in Nat /\ y \in Nat
      BY <2>1
    <2> HIDE DEF tmp
    <2>3. b \in Bytes
      <3>1. text[tmp + 1] \in Bytes
        BY <2>2 DEF Bytes
      <3> QED BY <2>1, <3>1 DEF ReadByte
    <2> DEFINE over == tmp <= 0 \/ y >= Rty
    <2>4. PageTurn(s) = [seek |-> tmp, x |-> x, y |-> y, byte |-> b, over |-> over]
      BY Zenon DEF PageTurn, tmp
    <2>5. over \in BOOLEAN
      OBVIOUS
    <2> HIDE DEF b, x, y, over
    <2> QED BY <2>2, <2>3, <2>4, <2>5 DEF PageStates
  <1> HIDE DEF n, T, start, Turn
  <1>3. next \in Steps(n, T)
    BY <1>2 DEF Steps
  <1>4. PICK h : Follows(h, n, T, start, next)
    <2> HIDE DEF next
    <2> QED BY <1>1, <1>3, Recursion
  <1>5. /\ h \in [0..n -> T] /\ h[0] = start
        /\ \A i \in 1..n : h[i] = Turn(h[i - 1])
    <2>1. /\ h \in [0..n -> T] /\ h[0] = start
          /\ \A i \in 1..n : h[i] = next[i][h[i - 1]]
      BY <1>4 DEF Follows
    <2>2. \A i \in 1..n : i - 1 \in 0..n
      BY <1>1
    <2> QED BY <2>1, <2>2
  <1>6. h = Body(h)
    <2>1. \A i \in 0..n : i = 0 \/ i \in 1..n
      BY <1>1
    <2>2. \A i \in 0..n : h[i] = IF i = 0 THEN start ELSE Turn(h[i - 1])
      BY <1>5, <2>1
    <2>3. h = [i \in 0..n |-> h[i]]
      BY <1>5
    <2> QED BY <2>2, <2>3
  <1> DEFINE w == PageTurns
  <1>7. w = Body(w)
    <2>1. w = CHOOSE g : g = Body(g)
      BY Zenon DEF PageTurns, Turn, PageMove, start, PageStart, n
    <2> HIDE DEF Body, w
    <2> QED BY <1>6, <2>1
  <1> HIDE DEF w
  <1>8. DOMAIN w = 0..n /\ \A i \in 0..n : w[i] = IF i = 0 THEN start ELSE Turn(w[i - 1])
    BY <1>7
  <1>9. 0 \in 0..n /\ \A i \in 1..n : i \in 0..n /\ i # 0
    BY <1>1
  <1>10. w[0] = start /\ \A i \in 1..n : w[i] = Turn(w[i - 1])
    BY <1>8, <1>9
  <1>11. \A i \in 0..n : w[i] \in T
    <2> DEFINE Q == {i \in 0..n : w[i] \in T}
    <2>1. 0 \in Q
      BY <1>1, <1>9, <1>10
    <2>2. ASSUME NEW i \in 0..n - 1, i \in Q
          PROVE  i + 1 \in Q
      <3>1. i + 1 \in 1..n /\ i + 1 \in 0..n /\ (i + 1) - 1 = i
        BY <1>1
      <3>2. w[i + 1] = Turn(w[i])
        BY <1>10, <3>1
      <3> QED BY <1>2, <2>2, <3>1, <3>2
    <2>3. 0..n \subseteq Q
      <3> HIDE DEF Q
      <3> QED BY <1>1, <2>1, <2>2, UpTo
    <2> QED BY <2>3
  <1>12. w \in [0..n -> T]
    BY <1>7, <1>8, <1>11
  <1> QED BY <1>10, <1>12 DEF w, n, T, start, Turn

LEMMA PageUpInside ==
  ASSUME text \in Texts, Rseek \in Nat, Rseek >= 1
  PROVE  PageTurns[Rseek].seek \in 0..Rseek
  <1> DEFINE n == Rseek
             w == PageTurns
             Holds(s) == s.seek \in 0..n /\ (s.over \/ s.seek >= 1)
             Q == {i \in 0..n : Holds(w[i])}
  <1>1. /\ w \in [0..n -> PageStates] /\ w[0] = PageStart
        /\ \A i \in 1..n : w[i] = PageMove(w[i - 1])
    BY PageTurnsAre
  <1> HIDE DEF w
  <1>2. 0 \in Q
    BY <1>1 DEF PageStart
  <1>3. ASSUME NEW i \in 0..n - 1, i \in Q
        PROVE  i + 1 \in Q
    <2>1. i + 1 \in 1..n /\ i + 1 \in 0..n /\ (i + 1) - 1 = i /\ i \in 0..n
      OBVIOUS
    <2>2. w[i + 1] = PageMove(w[i]) /\ Holds(w[i])
      BY <1>1, <1>3, <2>1
    <2>3. CASE w[i].over
      <3>1. w[i + 1] = w[i]
        BY <2>2, <2>3 DEF PageMove
      <3> QED BY <2>1, <2>2, <3>1
    <2>4. CASE ~w[i].over
      <3>1. w[i].seek \in 1..n
        BY <2>2, <2>4
      <3>2. w[i + 1] = PageTurn(w[i])
        BY <2>2, <2>4 DEF PageMove
      <3> DEFINE r == w[i]
      <3>3. /\ PageTurn(r).seek = r.seek - 1
            /\ \E y : PageTurn(r).over = (r.seek - 1 <= 0 \/ y >= Rty)
        <4> HIDE DEF r
        <4> QED BY Zenon DEF PageTurn
      <3>4. PageTurn(r).seek \in 0..n /\ (PageTurn(r).seek >= 1 \/ PageTurn(r).over)
        <4>1. r.seek - 1 <= 0 => PageTurn(r).over
          BY <3>3, Zenon
        <4>2. r.seek - 1 >= 1 \/ r.seek - 1 <= 0
          BY <3>1
        <4>3. r.seek - 1 \in 0..n
          BY <3>1
        <4> HIDE DEF Holds, r
        <4> QED BY <3>3, <4>1, <4>2, <4>3
      <3>5. Holds(w[i + 1])
        BY <3>2, <3>4
      <3> HIDE DEF Holds
      <3> QED BY <2>1, <3>5
    <2> QED BY <2>3, <2>4
  <1>4. n \in Q
    <2>1. 0..n \subseteq Q
      <3> HIDE DEF Q
      <3> QED BY <1>2, <1>3, UpTo
    <2> QED BY <2>1
  <1> QED BY <1>4 DEF w

LEMMA LineUpTyped ==
  ASSUME text \in Texts, Rseek \in Nat, filepos \in Nat
  PROVE  LineTurns[Rseek].seek \in Int /\ LineTurns[Rseek].at \in Nat
  <1>1. LineTurns \in [0..Rseek -> LineStates] /\ Rseek \in 0..Rseek
    BY LineTurnsAre
  <1> QED BY <1>1 DEF LineStates
-----------------------------------------------------------------------------
(* Viewer: the page is in the file.                                        *)

ViewTyped ==
  /\ text \in Texts /\ Rseek \in Int /\ filepos \in Nat
  /\ byte \in {"letter", "newline", "zero"}
  /\ layout.first \in Nat /\ layout.page \in Nat /\ RwrapView \in BOOLEAN
  /\ viewing \in BOOLEAN

(* What the lengths of the first line and of the page were taken from.     *)
LayoutHolds ==
  \E g \in Garbage, first \in Nat : layout = Layout(RwrapView, first, Page(Rseek, g))

ViewInv ==
  /\ ViewTyped /\ unsteady \in BOOLEAN
  /\ unsteady \/ (Rseek \in 0..Rsize /\ LayoutHolds)

LEMMA ReadAndPaintHolds ==
  ASSUME ViewTyped, NEW seek \in Int, NEW at \in Nat, NEW wrap \in BOOLEAN,
         ReadAndPaint(seek, at, wrap), text' = text, RwrapView' = wrap,
         viewing' \in BOOLEAN
  PROVE  ViewTyped' /\ Rseek' = seek /\ (seek \in 0..Rsize => LayoutHolds')
  <1> DEFINE from == Sought(at, seek)
  <1>1. PICK g \in Garbage :
          /\ layout' = Layout(wrap, layout.first, Page(from, g))
          /\ filepos' = PageEnd(from) /\ Rseek' = seek
          /\ byte' = IF from < Rsize THEN text[from + 1] ELSE "zero"
    BY DEF ReadAndPaint
  <1>2. from \in Nat
    BY DEF Sought
  <1> HIDE DEF from
  <1>3. PageEnd(from) \in Nat /\ Page(from, g) \in Seq(Gotten(from))
    <2>1. Rsize \in Nat /\ RwSize \in Nat
      BY SizesAre DEF ViewTyped
    <2>2. PageEnd(from) \in Nat
      BY <1>2, <2>1 DEF PageEnd
    <2> QED BY <1>2, <2>2, PageIs DEF ViewTyped
  <1>4. layout'.first \in Nat /\ layout'.page \in Nat
    BY <1>1, <1>3, LayoutTyped DEF ViewTyped
  <1>5. ViewTyped'
    <2>1. text \in Seq({"letter", "newline", "zero"})
      BY ViewAssumption DEF ViewTyped
    <2>2. byte' \in {"letter", "newline", "zero"}
      BY <1>1, <1>2, <2>1 DEF Rsize
    <2> QED BY <1>1, <1>3, <1>4, <2>2 DEF ViewTyped
  <1>6. ASSUME seek \in 0..Rsize
        PROVE  LayoutHolds'
    <2>1. from = seek
      <3>1. ~(seek < 0)
        BY <1>6, SizesAre DEF ViewTyped
      <3> QED BY <3>1 DEF from, Sought
    <2>2. layout' = Layout(wrap, layout.first, Page(seek, g))
      BY <1>1, <2>1
    <2>3. Page(seek, g) = Page(Rseek, g)'
      BY <1>1 DEF Page, PageEnd, Rsize
    <2>4. layout' = Layout(RwrapView', layout.first, Page(Rseek, g)')
      BY <2>2, <2>3
    <2>5. layout.first \in Nat
      BY DEF ViewTyped
    <2>6. \E h \in Garbage, first \in Nat :
            layout' = Layout(RwrapView', first, Page(Rseek, h)')
      BY <2>4, <2>5
    <2> QED BY <2>6 DEF LayoutHolds
  <1> QED BY <1>1, <1>5, <1>6

(* A key that stays in the file, unless something unsteady was done.       *)
LEMMA KeyHolds ==
  ASSUME ViewInv, NEW seek \in Int, NEW at \in Nat, ViewKey(seek, at),
         unsteady' \in BOOLEAN, unsteady' \/ (~unsteady /\ seek \in 0..Rsize)
  PROVE  ViewInv'
  <1>1. /\ ReadAndPaint(seek, at, RwrapView) /\ text' = text /\ RwrapView' = RwrapView
        /\ viewing' = viewing
    BY DEF ViewKey
  <1>2. ViewTyped' /\ Rseek' = seek /\ (seek \in 0..Rsize => LayoutHolds')
    BY <1>1, ReadAndPaintHolds DEF ViewInv, ViewTyped
  <1>3. Rsize' = Rsize
    BY <1>1 DEF Rsize
  <1> QED BY <1>2, <1>3 DEF ViewInv

LEMMA InitView == ViewInit => ViewInv
  <1> SUFFICES ASSUME ViewInit PROVE ViewInv
    OBVIOUS
  <1>1. /\ text \in Texts /\ Rseek = 0 /\ filepos = PageEnd(0) /\ RwrapView = FALSE
        /\ viewing = TRUE /\ unsteady = FALSE /\ byte = IF Rsize = 0 THEN "zero" ELSE text[1]
    BY DEF ViewInit
  <1>2. PICK g \in Garbage : layout = Layout(FALSE, 0, Page(0, g))
    BY DEF ViewInit
  <1>3. PageEnd(0) \in Nat /\ Page(0, g) \in Seq(Gotten(0))
    <2>1. Rsize \in Nat /\ RwSize \in Nat
      BY <1>1, SizesAre
    <2>2. PageEnd(0) \in Nat
      BY <2>1 DEF PageEnd
    <2> QED BY <1>1, <2>2, PageIs
  <1>4. layout.first \in Nat /\ layout.page \in Nat
    BY <1>1, <1>2, <1>3, LayoutTyped
  <1>5. ViewTyped
    <2>1. RwrapView \in BOOLEAN /\ Rseek \in Int /\ filepos \in Nat
      <3>1. RwrapView \in BOOLEAN
        BY <1>1, Zenon
      <3>2. 0 \in Int
        OBVIOUS
      <3> QED BY <1>1, <1>3, <3>1, <3>2, Zenon
    <2>2. viewing \in BOOLEAN
      BY <1>1, Zenon
    <2>3. byte \in {"letter", "newline", "zero"}
      <3>1. text \in Seq({"letter", "newline", "zero"})
        BY <1>1, ViewAssumption
      <3> QED BY <1>1, <3>1 DEF Rsize
    <2> QED BY <1>1, <1>4, <2>1, <2>2, <2>3 DEF ViewTyped
  <1>6. 0 \in 0..Rsize
    BY <1>1, SizesAre
  <1>7. LayoutHolds
    BY <1>1, <1>2 DEF LayoutHolds
  <1>8. unsteady \in BOOLEAN
    BY <1>1, Zenon
  <1> QED BY <1>1, <1>5, <1>6, <1>7, <1>8 DEF ViewInv

LEMMA ViewStep == ViewInv /\ [ViewNext]_viewVars => ViewInv'
  <1> SUFFICES ASSUME ViewInv, [ViewNext]_viewVars PROVE ViewInv'
    OBVIOUS
  <1>1. /\ ViewTyped /\ Rsize \in Nat /\ unsteady \in BOOLEAN
        /\ unsteady \/ (Rseek \in 0..Rsize /\ LayoutHolds)
    BY SizesAre DEF ViewInv, ViewTyped
  <1>2. /\ text \in Texts /\ Rseek \in Int /\ filepos \in Nat
        /\ layout.first \in Nat /\ layout.page \in Nat /\ RwrapView \in BOOLEAN
        /\ viewing \in BOOLEAN /\ byte \in {"letter", "newline", "zero"}
    BY <1>1 DEF ViewTyped
  <1>3. CASE /\ UNCHANGED <<text, Rseek, filepos, byte, layout, RwrapView, unsteady>>
             /\ viewing' \in BOOLEAN
    <2>1. ViewTyped'
      BY <1>2, <1>3 DEF ViewTyped
    <2>2. unsteady' = unsteady /\ (Rseek \in 0..Rsize)' = (Rseek \in 0..Rsize)
      BY <1>3 DEF Rsize
    <2>3. LayoutHolds => LayoutHolds'
      BY <1>3 DEF LayoutHolds, Page, PageEnd, Rsize
    <2> QED BY <1>1, <2>1, <2>2, <2>3, Zenon DEF ViewInv
  <1>4. CASE Wrap
    <2>1. /\ RwrapView' \in BOOLEAN /\ ReadAndPaint(Rseek, filepos, RwrapView')
          /\ text' = text /\ unsteady' = unsteady /\ viewing' = viewing
      BY <1>2, <1>4 DEF Wrap
    <2>2. ViewTyped' /\ Rseek' = Rseek /\ (Rseek \in 0..Rsize => LayoutHolds')
      BY <1>1, <1>2, <2>1, ReadAndPaintHolds
    <2>3. Rsize' = Rsize
      BY <2>1 DEF Rsize
    <2> QED BY <1>1, <2>1, <2>2, <2>3 DEF ViewInv
  <1>5. CASE LineDown
    <2> DEFINE seek == IF Rseek < Rsize THEN Rseek + layout.first ELSE Rseek
    <2>1. /\ ViewKey(seek, filepos) /\ seek \in Int
          /\ unsteady' = (unsteady \/ (Rseek < Rsize /\ ~LineEnds))
          /\ unsteady' \in BOOLEAN
      BY <1>1, <1>2, <1>5 DEF LineDown
    <2>2. CASE unsteady'
      <3> HIDE DEF seek
      <3> QED BY <1>2, <2>1, <2>2, KeyHolds
    <2>3. CASE ~unsteady'
      <3>1. ~unsteady /\ Rseek \in 0..Rsize /\ LayoutHolds /\ (Rseek < Rsize => LineEnds)
        BY <1>1, <2>1, <2>3
      <3>2. CASE Rseek < Rsize
        <4>1. PICK g \in Garbage, first \in Nat :
                layout = Layout(RwrapView, first, Page(Rseek, g))
          BY <3>1 DEF LayoutHolds
        <4>2. Sought(filepos, Rseek) = Rseek
          BY <1>2, <3>1 DEF Sought
        <4>3. IF RwrapView THEN Page(Rseek, <<>>) # <<>>
              ELSE "newline" \in ToSet(Page(Rseek, <<>>))
          BY <3>1, <3>2, <4>2 DEF LineEnds
        <4>4. Rseek + layout.first <= Rsize
          BY <1>2, <3>1, <4>1, <4>3, FirstLineInFile
        <4>5. seek \in 0..Rsize
          BY <1>1, <1>2, <3>1, <3>2, <4>4
        <4> HIDE DEF seek
        <4> QED BY <1>2, <2>1, <3>1, <4>5, KeyHolds
      <3>3. CASE ~(Rseek < Rsize)
        <4>1. seek \in 0..Rsize
          BY <3>1, <3>3
        <4> HIDE DEF seek
        <4> QED BY <1>2, <2>1, <3>1, <4>1, KeyHolds
      <3> QED BY <3>2, <3>3
    <2> QED BY <2>2, <2>3
  <1>6. CASE LineUp
    <2> DEFINE end == IF Rseek > 0 THEN LineTurns[Rseek] ELSE [seek |-> Rseek, at |-> filepos]
    <2>1. /\ ViewKey(end.seek, end.at) /\ unsteady' = (unsteady \/ Rseek = 1)
          /\ unsteady' \in BOOLEAN
      BY <1>6 DEF LineUp
    <2>2. end.seek \in Int /\ end.at \in Nat
      <3>1. CASE Rseek > 0
        <4>1. Rseek \in Nat
          BY <1>2, <3>1
        <4> QED BY <1>2, <3>1, <4>1, LineUpTyped
      <3>2. CASE ~(Rseek > 0)
        BY <1>2, <3>2
      <3> QED BY <3>1, <3>2
    <2>3. ASSUME ~unsteady'
          PROVE  ~unsteady /\ end.seek \in 0..Rsize
      <3>1. ~unsteady /\ Rseek # 1 /\ Rseek \in 0..Rsize
        BY <1>1, <2>1, <2>3
      <3>2. CASE Rseek > 0
        <4>1. Rseek \in Nat /\ Rseek >= 2
          BY <1>2, <3>1, <3>2
        <4>2. LineTurns[Rseek].seek \in 0..Rseek
          BY <1>2, <4>1, LineUpInside
        <4>3. end.seek = LineTurns[Rseek].seek
          BY <3>2
        <4> HIDE DEF end
        <4> QED BY <1>1, <1>2, <3>1, <4>2, <4>3
      <3>3. CASE ~(Rseek > 0)
        BY <3>1, <3>3
      <3> QED BY <3>2, <3>3
    <2> HIDE DEF end
    <2> QED BY <2>1, <2>2, <2>3, KeyHolds
  <1>7. CASE PageDownKey
    <2> DEFINE seek == IF Rseek < Rsize /\ Rseek + layout.page < Rsize
                       THEN Rseek + layout.page ELSE Rseek
    <2>1. ViewKey(seek, filepos) /\ unsteady' = unsteady
      BY <1>7 DEF PageDownKey
    <2>2. seek \in Int /\ (Rseek \in 0..Rsize => seek \in 0..Rsize)
      BY <1>1, <1>2
    <2> HIDE DEF seek
    <2> QED BY <1>1, <1>2, <2>1, <2>2, KeyHolds
  <1>8. CASE PageUpKey
    <2> DEFINE to == IF Rseek > 0 THEN PageTurns[Rseek].seek ELSE Rseek
               at == IF Rseek > 0 /\ to < Rsize THEN to + 1 ELSE filepos
    <2>1. ViewKey(to, at) /\ unsteady' = unsteady
      BY <1>8 DEF PageUpKey
    <2>2. /\ to \in Int /\ (Rseek \in 0..Rsize => to \in 0..Rsize)
          /\ Rseek > 0 => to \in Nat
      <3>1. CASE Rseek > 0
        <4>1. Rseek \in Nat /\ Rseek >= 1
          BY <1>2, <3>1
        <4>2. PageTurns[Rseek].seek \in 0..Rseek
          BY <1>2, <4>1, PageUpInside
        <4>3. to = PageTurns[Rseek].seek
          BY <3>1
        <4> HIDE DEF to
        <4> QED BY <1>1, <1>2, <4>1, <4>2, <4>3
      <3>2. CASE ~(Rseek > 0)
        BY <1>2, <3>2
      <3> QED BY <3>1, <3>2
    <2> HIDE DEF to
    <2>3. at \in Nat
      BY <1>2, <2>2
    <2> HIDE DEF at
    <2> QED BY <1>1, <2>1, <2>2, <2>3, KeyHolds
  <1>9. CASE CloseView
    BY <1>3, <1>9 DEF CloseView
  <1>10. CASE UNCHANGED viewVars
    BY <1>2, <1>3, <1>10 DEF viewVars
  <1> QED BY <1>4, <1>5, <1>6, <1>7, <1>8, <1>9, <1>10 DEF ViewNext

(* The page of the viewer begins in the file or at its end, whatever keys  *)
(* are pressed in whatever order, for any file and window: the lengths     *)
(* that Down and PageDown add were measured on the page that is shown, and *)
(* Up and PageUp stop at the beginning; but for Up at position 1 and       *)
(* for lines whose end is not in the page.                                 *)
THEOREM ViewStaysInside == ViewInit /\ [][ViewNext]_viewVars => []ViewInside
  <1>1. ViewInv => ViewInside
    BY DEF ViewInv, ViewInside
  <1> QED BY <1>1, InitView, ViewStep, PTL
=============================================================================
