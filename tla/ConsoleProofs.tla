---------------------------- MODULE ConsoleProofs ---------------------------
(***************************************************************************)
(* Proofs about the console's list of messages, for every height of the    *)
(* terminal, every message and every moment of its arrival.                *)
(***************************************************************************)
EXTENDS Console, VectorProofs

-----------------------------------------------------------------------------
(* Types.                                                                  *)

LEMMA MinMaxOfTwo ==
    ASSUME NEW a \in Int, NEW b \in Int
    PROVE  /\ Min({a, b}) = IF a <= b THEN a ELSE b
           /\ Max({a, b}) = IF a <= b THEN b ELSE a
BY DEF Min, Max

\* DrawMessages fetches a message that is there.
Inside == pc = "loop" => idx < Len(messages)

\* What a step does: a draw of one message, the start of a draw, or nothing to
\* the screen.
Appended == messages' = messages \/ \E body \in Nat : messages' = Append(messages, body)

LEMMA MessagesGrow ==
    ASSUME TypeOK, Appended
    PROVE  /\ messages' \in Seq(Nat) /\ Len(messages) \in Nat /\ Len(messages') \in Nat
           /\ Len(messages) <= Len(messages') /\ Len(messages') <= Len(messages) + 1
           /\ DOMAIN messages = 1 .. Len(messages) /\ DOMAIN messages' = 1 .. Len(messages')
           /\ \A k \in DOMAIN messages : messages'[k] = messages[k] /\ messages[k] \in Nat
<1>1. messages \in Seq(Nat)
  BY DEF TypeOK
<1>2. CASE messages' = messages
  BY <1>1, <1>2, LenProperties
<1>3. ASSUME NEW body \in Nat, messages' = Append(messages, body)
      PROVE  /\ messages' \in Seq(Nat) /\ Len(messages) \in Nat /\ Len(messages') \in Nat
             /\ Len(messages) <= Len(messages') /\ Len(messages') <= Len(messages) + 1
             /\ DOMAIN messages = 1 .. Len(messages) /\ DOMAIN messages' = 1 .. Len(messages')
             /\ \A k \in DOMAIN messages : messages'[k] = messages[k] /\ messages[k] \in Nat
  <2>1. /\ Len(messages) \in Nat /\ DOMAIN messages = 1 .. Len(messages)
        /\ \A k \in DOMAIN messages : messages[k] \in Nat
    BY <1>1, LenProperties
  <2>2. /\ messages' \in Seq(Nat) /\ Len(messages') = Len(messages) + 1
        /\ \A k \in 1 .. Len(messages) : messages'[k] = messages[k]
    BY <1>1, <1>3, AppendProperties
  <2>3. DOMAIN messages' = 1 .. Len(messages')
    BY <2>2, LenProperties
  <2> QED BY <2>1, <2>2, <2>3
<1> QED BY <1>2, <1>3 DEF Appended

\* One message: how many lines of it are drawn, and where.
LEMMA DrawMessageEffect ==
    ASSUME TypeOK, Inside, DrawMessage
    PROVE  \E len \in Nat \ {0}, n \in Nat \ {0} :
             /\ idx > 0 /\ lineCount < totalLines /\ idx < Len(messages)
             /\ len = Height(idx)
             /\ n <= len /\ n <= totalLines - lineCount
             /\ n = len \/ n = totalLines - lineCount
             /\ stamps' = stamps \cup {[row |-> lastLine - lineCount - len + 1, msg |-> idx]}
             /\ screen' = screen \cup
                 {[row |-> lastLine - lineCount - i, msg |-> idx, line |-> len - i] :
                     i \in 0 .. n - 1}
             /\ lineCount' = lineCount + n
             /\ idx' = idx - 1
             /\ UNCHANGED <<LINES, messages, messageCursor, userInput, running, pc, begun>>
<1> DEFINE len == messages[idx + 1] + 1
           n   == FittingLines(len)
<1>1. /\ pc = "loop" /\ lineCount < totalLines /\ idx > 0
      /\ stamps' = stamps \cup {[row |-> StampRow(len), msg |-> idx]}
      /\ screen' = screen \cup
           {[row |-> lastLine - lineCount - i, msg |-> idx, line |-> len - i] : i \in 0 .. n - 1}
      /\ lineCount' = lineCount + n
      /\ idx' = idx - 1
      /\ UNCHANGED <<LINES, messages, messageCursor, userInput, running, pc, begun>>
  BY DEF DrawMessage
<1>2. idx < Len(messages) /\ idx \in Int /\ lineCount \in Nat /\ totalLines \in Int
      /\ Len(messages) \in Nat
  BY <1>1, ConsoleAssumption, LenProperties DEF Inside, TypeOK, totalLines, lastLine, firstLine
<1>3. len \in Nat \ {0}
  <2>1. idx + 1 \in 1 .. Len(messages)
    BY <1>1, <1>2
  <2>2. messages[idx + 1] \in Nat
    BY <2>1, ElementOfSeq DEF TypeOK
  <2> QED BY <2>2
<1>4. n = IF len <= totalLines - lineCount THEN len ELSE totalLines - lineCount
  <2>1. len \in Int /\ totalLines - lineCount \in Int
    BY <1>2, <1>3
  <2> HIDE DEF len
  <2> QED BY <2>1, MinMaxOfTwo DEF FittingLines
<1>5. len = Height(idx) /\ StampRow(len) = lastLine - lineCount - len + 1
  BY DEF Height, StampRow
<1> HIDE DEF len, n
<1>6. n \in Nat \ {0} /\ n <= len /\ n <= totalLines - lineCount
      /\ (n = len \/ n = totalLines - lineCount)
  BY <1>1, <1>2, <1>3, <1>4
<1> QED BY <1>1, <1>2, <1>3, <1>5, <1>6

LEMMA WhatSteps ==
    ASSUME TypeOK, [Next]_vars
    PROVE  /\ Appended /\ Len(messages') <= MaxMessages
           /\ \/ DrawStart \/ DrawMessage
              \/ /\ UNCHANGED drawing
                 /\ \/ pc' = pc /\ UNCHANGED LINES
                    \/ DrawEnd
                    \/ pc' \in {"draw", "end"}
           /\ LINES' \in Heights
           /\ messageCursor' \in 0 .. Len(messages')
           /\ userInput' \in 0 .. MaxInput
           /\ running' \in BOOLEAN
           /\ pc' \in {"draw", "loop", "getch", "end"}
<1>0. /\ LINES \in Heights /\ messages \in Seq(Nat) /\ Len(messages) \in Nat
      /\ Len(messages) <= MaxMessages
      /\ messageCursor \in 0 .. Len(messages) /\ userInput \in 0 .. MaxInput
      /\ running \in BOOLEAN /\ pc \in {"draw", "loop", "getch", "end"}
      /\ HelpLines \in Nat /\ MaxMessages \in Nat /\ MaxInput \in Nat
  BY ConsoleAssumption, LenProperties DEF TypeOK
<1> USE DEF Appended
<1>1. CASE DrawStart
  BY <1>0, <1>1 DEF DrawStart
<1>2. CASE DrawMessage
  BY <1>0, <1>2 DEF DrawMessage
<1>3. CASE DrawEnd
  BY <1>0, <1>3 DEF DrawEnd
<1>4. CASE Leave
  BY <1>0, <1>4 DEF Leave
<1>5. CASE Character
  BY <1>0, <1>5 DEF Character, Key
<1>6. CASE Resize
  BY <1>0, <1>6 DEF Resize, Key
<1>7. CASE Backspace
  <2>1. Max({userInput - 1, 0}) = IF userInput - 1 <= 0 THEN 0 ELSE userInput - 1
    <3>1. PICK x : x = userInput - 1 /\ x \in Int
      BY <1>0
    <3>2. 0 \in Int
      OBVIOUS
    <3>3. Max({x, 0}) = IF x <= 0 THEN 0 ELSE x
      BY <3>1, <3>2, MinMaxOfTwo
    <3> QED BY <3>1, <3>3
  <2> QED BY <1>0, <1>7, <2>1 DEF Backspace, Key
<1>8. CASE CtrlC
  BY <1>0, <1>8 DEF CtrlC, Key
<1>9. CASE Up
  <2>1. Min({messageCursor + 1, Len(messages)})
          = IF messageCursor + 1 <= Len(messages) THEN messageCursor + 1 ELSE Len(messages)
    BY <1>0, MinMaxOfTwo
  <2> QED BY <1>0, <1>9, <2>1 DEF Up, Key
<1>10. CASE Down
  <2>1. Max({messageCursor - 1, 0}) = IF messageCursor - 1 <= 0 THEN 0 ELSE messageCursor - 1
    <3>1. PICK x : x = messageCursor - 1 /\ x \in Int
      BY <1>0
    <3>2. 0 \in Int
      OBVIOUS
    <3>3. Max({x, 0}) = IF x <= 0 THEN 0 ELSE x
      BY <3>1, <3>2, MinMaxOfTwo
    <3> QED BY <3>1, <3>3
  <2> QED BY <1>0, <1>10, <2>1 DEF Down, Key
<1>11. ASSUME NEW line \in {"post", "follow", "help", "usage", "exit"}, Enter(line)
       PROVE  /\ Appended /\ Len(messages') <= MaxMessages /\ UNCHANGED <<LINES, messageCursor, drawing>>
              /\ pc' = "draw" /\ userInput' = 0 /\ running' \in BOOLEAN
              /\ Len(messages) <= Len(messages') /\ Len(messages') \in Nat
  <2>1. /\ \/ messages' = messages
           \/ Len(messages) < MaxMessages /\ \E body \in Nat : messages' = Append(messages, body)
        /\ UNCHANGED <<LINES, messageCursor, drawing>>
        /\ pc' = "draw" /\ userInput' = 0 /\ running' = (line # "exit")
    BY <1>0, <1>11 DEF Enter, Key
  <2>2. Len(messages) <= Len(messages') /\ Len(messages') \in Nat
        /\ Len(messages') <= Len(messages) + 1
    BY <2>1, MessagesGrow
  <2>3. Len(messages') <= MaxMessages
    BY <1>0, <2>1, <2>2
  <2> QED BY <2>1, <2>2, <2>3
<1>12. ASSUME NEW body \in Bodies, IncomingMessageHandler(body)
       PROVE  /\ Appended /\ Len(messages') <= MaxMessages
              /\ UNCHANGED <<LINES, messageCursor, userInput, running, pc, drawing>>
              /\ Len(messages) <= Len(messages') /\ Len(messages') \in Nat
  <2>1. /\ Len(messages) < MaxMessages /\ messages' = Append(messages, body) /\ body \in Nat
        /\ UNCHANGED <<LINES, messageCursor, userInput, running, pc, drawing>>
    BY <1>12, ConsoleAssumption DEF IncomingMessageHandler
  <2>2. Len(messages) <= Len(messages') /\ Len(messages') \in Nat
        /\ Len(messages') <= Len(messages) + 1
    BY <2>1, MessagesGrow
  <2> QED BY <1>0, <2>1, <2>2
<1>13. CASE Quiescent \/ UNCHANGED vars
  BY <1>0, <1>13 DEF Quiescent, vars, drawing
<1>14. ASSUME NEW line \in {"post", "follow", "help", "usage", "exit"}, Enter(line)
       PROVE  messageCursor' \in 0 .. Len(messages') /\ userInput' \in 0 .. MaxInput
  BY <1>0, <1>11, <1>14
<1>15. ASSUME NEW body \in Bodies, IncomingMessageHandler(body)
       PROVE  messageCursor' \in 0 .. Len(messages')
  BY <1>0, <1>12, <1>15
<1> QED BY <1>0, <1>1, <1>2, <1>3, <1>4, <1>5, <1>6, <1>7, <1>8, <1>9, <1>10, <1>11, <1>12,
           <1>13, <1>14, <1>15 DEF Next

LEMMA TypesStep ==
    ASSUME TypeOK, Inside, [Next]_vars
    PROVE  TypeOK' /\ Inside'
<1>0. /\ idx \in Int /\ lineCount \in Nat /\ Len(messages) \in Nat /\ lastLine \in Int
      /\ screen \subseteq [row : Int, msg : Nat, line : Nat]
      /\ stamps \subseteq [row : Int, msg : Nat]
      /\ begun \in [size : Nat, cursor : Nat] /\ messageCursor \in 0 .. Len(messages)
  BY ConsoleAssumption, LenProperties DEF TypeOK, lastLine
<1>1. /\ Appended /\ Len(messages') <= MaxMessages /\ LINES' \in Heights
      /\ messageCursor' \in 0 .. Len(messages') /\ userInput' \in 0 .. MaxInput
      /\ running' \in BOOLEAN /\ pc' \in {"draw", "loop", "getch", "end"}
  BY WhatSteps
<1>2. /\ messages' \in Seq(Nat) /\ Len(messages') \in Nat /\ Len(messages) <= Len(messages')
  BY <1>1, MessagesGrow
<1>q. ASSUME /\ idx' \in Int /\ lineCount' \in Nat
             /\ screen' \subseteq [row : Int, msg : Nat, line : Nat]
             /\ stamps' \subseteq [row : Int, msg : Nat]
             /\ begun' \in [size : Nat, cursor : Nat]
      PROVE  TypeOK'
  BY <1>1, <1>2, <1>q DEF TypeOK
<1>3. CASE DrawStart
  <2>1. /\ idx' = Len(messages) - messageCursor - 1 /\ lineCount' = 0 /\ screen' = {}
        /\ stamps' = {} /\ begun' = [size |-> Len(messages), cursor |-> messageCursor]
        /\ messages' = messages
    BY <1>3 DEF DrawStart
  <2>2. TypeOK'
    BY <1>0, <1>q, <2>1
  <2>3. idx' < Len(messages')
    BY <1>0, <2>1
  <2> QED BY <2>2, <2>3 DEF Inside
<1>4. CASE DrawMessage
  <2>1. PICK len \in Nat \ {0}, n \in Nat \ {0} :
             /\ idx > 0 /\ idx < Len(messages) /\ n <= len
             /\ stamps' = stamps \cup {[row |-> lastLine - lineCount - len + 1, msg |-> idx]}
             /\ screen' = screen \cup
                 {[row |-> lastLine - lineCount - i, msg |-> idx, line |-> len - i] :
                     i \in 0 .. n - 1}
             /\ lineCount' = lineCount + n /\ idx' = idx - 1
             /\ UNCHANGED <<messages, begun>>
    BY <1>4, DrawMessageEffect
  <2>2. ASSUME NEW i \in 0 .. n - 1
        PROVE  [row |-> lastLine - lineCount - i, msg |-> idx, line |-> len - i]
                 \in [row : Int, msg : Nat, line : Nat]
    <3>1. lastLine - lineCount - i \in Int /\ idx \in Nat /\ len - i \in Nat
      BY <1>0, <2>1
    <3> QED BY <3>1
  <2>3. [row |-> lastLine - lineCount - len + 1, msg |-> idx] \in [row : Int, msg : Nat]
    <3>1. lastLine - lineCount - len + 1 \in Int /\ idx \in Nat
      BY <1>0, <2>1
    <3> QED BY <3>1
  <2>4. screen' \subseteq [row : Int, msg : Nat, line : Nat]
    BY <1>0, <2>1, <2>2
  <2>5. stamps' \subseteq [row : Int, msg : Nat]
    BY <1>0, <2>1, <2>3
  <2>6. idx' \in Int /\ lineCount' \in Nat /\ idx' < Len(messages')
        /\ begun' \in [size : Nat, cursor : Nat]
    BY <1>0, <2>1
  <2> QED BY <1>q, <2>4, <2>5, <2>6 DEF Inside
<1>5. CASE UNCHANGED drawing /\ (pc' = "loop" => pc = "loop")
  <2>1. UNCHANGED <<idx, lineCount, screen, stamps, begun>>
    BY <1>5 DEF drawing
  <2>2. TypeOK'
    BY <1>0, <1>q, <2>1
  <2>3. Inside'
    BY <1>0, <1>2, <1>5, <2>1 DEF Inside
  <2> QED BY <2>2, <2>3
<1>6. \/ DrawStart \/ DrawMessage
      \/ /\ UNCHANGED drawing
         /\ pc' = pc \/ DrawEnd \/ pc' \in {"draw", "end"}
  BY WhatSteps
<1>7. DrawEnd => pc' = "getch"
  BY DEF DrawEnd
<1> QED BY <1>3, <1>4, <1>5, <1>6, <1>7

LEMMA TypesInit == Init => TypeOK /\ Inside
<1> SUFFICES ASSUME Init PROVE TypeOK /\ Inside
  OBVIOUS
<1>1. messages = <<>> /\ Len(messages) = 0 /\ messages \in Seq(Nat)
  BY EmptySeq DEF Init
<1>2. begun \in [size : Nat, cursor : Nat] /\ screen = {} /\ stamps = {}
  BY DEF Init
<1> QED BY <1>1, <1>2, ConsoleAssumption DEF Init, TypeOK, Inside

\* Type correctness of the console, and with it that the cursor stays in the list.
THEOREM ConsoleTypes == Spec => []TypeOK
<1>1. TypeOK /\ Inside /\ [Next]_vars => (TypeOK /\ Inside)'
  BY TypesStep
<1> QED BY <1>1, TypesInit, PTL DEF Spec

-----------------------------------------------------------------------------
(* The screen.                                                             *)

\* The cells of the screen after one message: the old ones, in rows below the
\* new ones, and the new ones.
LEMMA DrawMessageKeeps ==
    ASSUME TypeOK, Inside, DrawInv, DrawMessage
    PROVE  DrawInv'
<1>0. /\ idx \in Int /\ lineCount \in Nat /\ Len(messages) \in Nat
      /\ lastLine \in Int /\ totalLines = lastLine - 2 /\ firstLine = 2
      /\ screen \subseteq [row : Int, msg : Nat, line : Nat]
      /\ stamps \subseteq [row : Int, msg : Nat] /\ Newest \in Int
  BY ConsoleAssumption, LenProperties
     DEF TypeOK, lastLine, totalLines, firstLine, Newest
<1>1. pc = "loop" /\ pc' = "loop"
  BY DEF DrawMessage
<1>2. PICK len \in Nat \ {0}, n \in Nat \ {0} :
         /\ idx > 0 /\ lineCount < totalLines /\ idx < Len(messages)
         /\ len = Height(idx)
         /\ n <= len /\ n <= totalLines - lineCount
         /\ n = len \/ n = totalLines - lineCount
         /\ stamps' = stamps \cup {[row |-> lastLine - lineCount - len + 1, msg |-> idx]}
         /\ screen' = screen \cup
             {[row |-> lastLine - lineCount - i, msg |-> idx, line |-> len - i] :
                 i \in 0 .. n - 1}
         /\ lineCount' = lineCount + n
         /\ idx' = idx - 1
         /\ UNCHANGED <<LINES, messages, messageCursor, userInput, running, pc, begun>>
  BY DrawMessageEffect
<1>3. /\ lastLine' = lastLine /\ totalLines' = totalLines /\ firstLine' = firstLine
      /\ Newest' = Newest /\ Newest < Len(messages) /\ Newest' < Len(messages')
      /\ \A k : Height(k)' = Height(k)
  BY <1>1, <1>2 DEF lastLine, totalLines, firstLine, Newest, Height, DrawInv
<1>4. RowsFilled /\ LinesFollow /\ StampsPlaced
  BY <1>1 DEF DrawInv
<1> DEFINE cell(i) == [row |-> lastLine - lineCount - i, msg |-> idx, line |-> len - i]
<1>5. \A i \in 0 .. n - 1 : /\ cell(i) \in screen'
                            /\ cell(i).row = lastLine - lineCount - i
                            /\ cell(i).msg = idx /\ cell(i).line = len - i
  BY <1>2
<1>6. \A c \in screen' : c \in screen \/ \E i \in 0 .. n - 1 : c = cell(i)
  BY <1>2
<1>7. screen \subseteq screen'
  BY <1>2
<1> HIDE DEF cell
<1>8. \A c \in screen : /\ c.row \in Int /\ c.msg \in Nat /\ c.line \in Nat
                        /\ c.row >= lastLine - lineCount + 1 /\ c.row <= lastLine
                        /\ c.msg >= idx + 1 /\ c.msg <= Newest
                        /\ c.line \in 1 .. Height(c.msg)
  BY <1>0, <1>4 DEF RowsFilled
<1>9. idx <= Newest
  <2>1. CASE lineCount = 0
    BY <1>0, <1>4, <2>1 DEF LinesFollow
  <2>2. CASE lineCount # 0
    <3>1. PICK c \in screen : c.msg = idx + 1
      BY <1>4, <2>2 DEF LinesFollow
    <3> QED BY <1>0, <1>8, <3>1
  <2> QED BY <2>1, <2>2
<1>10. RowsFilled'
  <2>1. ASSUME NEW c \in screen'
        PROVE  /\ c.row \in lastLine - lineCount' + 1 .. lastLine
               /\ c.msg \in idx' + 1 .. Newest
               /\ c.line \in 1 .. Height(c.msg)
    <3>1. CASE c \in screen
      BY <1>0, <1>2, <1>8, <3>1
    <3>2. ASSUME NEW i \in 0 .. n - 1, c = cell(i)
          PROVE  /\ c.row \in lastLine - lineCount' + 1 .. lastLine
                 /\ c.msg \in idx' + 1 .. Newest
                 /\ c.line \in 1 .. Height(c.msg)
      <4>1. c.row = lastLine - lineCount - i /\ c.msg = idx /\ c.line = len - i
        BY <1>5, <3>2
      <4>2. Height(c.msg) = len
        BY <1>2, <4>1
      <4>3. c.row \in lastLine - lineCount' + 1 .. lastLine
        BY <1>0, <1>2, <4>1
      <4>4. c.msg \in idx' + 1 .. Newest
        BY <1>0, <1>2, <1>9, <4>1
      <4>5. len - i \in 1 .. len
        BY <1>2
      <4> QED BY <4>1, <4>2, <4>3, <4>4, <4>5
    <3> QED BY <1>6, <3>1, <3>2
  <2>2. ASSUME NEW r \in lastLine - lineCount' + 1 .. lastLine
        PROVE  \E c \in screen' : c.row = r
    <3>1. CASE r >= lastLine - lineCount + 1
      <4>1. r \in lastLine - lineCount + 1 .. lastLine
        BY <1>0, <1>2, <3>1
      <4> QED BY <1>4, <1>7, <4>1 DEF RowsFilled
    <3>2. CASE r < lastLine - lineCount + 1
      <4>1. PICK i : i = lastLine - lineCount - r
        OBVIOUS
      <4>2. /\ r \in Int /\ r >= lastLine - (lineCount + n) + 1
            /\ r <= lastLine - lineCount
        BY <1>0, <1>2, <3>2
      <4>3. i \in 0 .. n - 1 /\ lastLine - lineCount - i = r
        BY <1>0, <4>1, <4>2
      <4> QED BY <1>5, <4>3
    <3> QED BY <1>0, <1>2, <3>1, <3>2
  <2>3. ASSUME NEW c \in screen', NEW d \in screen',
               c.row = d.row \/ (c.msg = d.msg /\ c.line = d.line)
        PROVE  c = d
    <3>1. CASE c \in screen /\ d \in screen
      BY <1>4, <2>3, <3>1 DEF RowsFilled
    <3>2. ASSUME NEW i \in 0 .. n - 1, c = cell(i), NEW j \in 0 .. n - 1, d = cell(j)
          PROVE  c = d
      <4>1. /\ c.row = lastLine - lineCount - i /\ c.line = len - i
            /\ d.row = lastLine - lineCount - j /\ d.line = len - j
        BY <1>5, <3>2
      <4>2. i = j
        BY <1>0, <1>2, <2>3, <4>1
      <4> QED BY <3>2, <4>2
    <3>3. ASSUME NEW i \in 0 .. n - 1, c = cell(i), d \in screen
          PROVE  FALSE
      <4>1. c.row = lastLine - lineCount - i /\ c.msg = idx
        BY <1>5, <3>3
      <4> QED BY <1>0, <1>8, <2>3, <3>3, <4>1
    <3>4. ASSUME NEW i \in 0 .. n - 1, d = cell(i), c \in screen
          PROVE  FALSE
      <4>1. d.row = lastLine - lineCount - i /\ d.msg = idx
        BY <1>5, <3>4
      <4> QED BY <1>0, <1>8, <2>3, <3>4, <4>1
    <3> QED BY <1>6, <3>1, <3>2, <3>3, <3>4
  <2> QED BY <1>3, <2>1, <2>2, <2>3 DEF RowsFilled
<1>11. LinesFollow'
  <2>1. ASSUME NEW c \in screen', c.row = lastLine
        PROVE  c.msg = Newest /\ c.line = Height(Newest)
    <3>1. CASE c \in screen
      BY <1>4, <2>1, <3>1 DEF LinesFollow
    <3>2. ASSUME NEW i \in 0 .. n - 1, c = cell(i)
          PROVE  c.msg = Newest /\ c.line = Height(Newest)
      <4>1. c.row = lastLine - lineCount - i /\ c.msg = idx /\ c.line = len - i
        BY <1>5, <3>2
      <4>2. i = 0 /\ lineCount = 0
        BY <1>0, <2>1, <4>1
      <4>3. idx = Newest
        BY <1>4, <4>2 DEF LinesFollow
      <4>4. len - i = len
        BY <1>2, <4>2
      <4> QED BY <1>2, <4>1, <4>3, <4>4
    <3> QED BY <1>6, <3>1, <3>2
  <2>2. ASSUME NEW c \in screen', NEW d \in screen', d.row = c.row + 1
        PROVE  LineAfter(c, d)
    <3>1. CASE c \in screen /\ d \in screen
      BY <1>4, <2>2, <3>1 DEF LinesFollow
    <3>2. ASSUME NEW i \in 0 .. n - 1, c = cell(i), NEW j \in 0 .. n - 1, d = cell(j)
          PROVE  LineAfter(c, d)
      <4>1. /\ c.row = lastLine - lineCount - i /\ c.line = len - i /\ c.msg = idx
            /\ d.row = lastLine - lineCount - j /\ d.line = len - j /\ d.msg = idx
        BY <1>5, <3>2
      <4>2. i = j + 1
        BY <1>0, <2>2, <4>1
      <4>3. c.line < len /\ d.line = c.line + 1
        BY <1>2, <4>1, <4>2
      <4>4. Height(c.msg) = len
        BY <1>2, <4>1
      <4> QED BY <4>1, <4>3, <4>4 DEF LineAfter
    <3>3. ASSUME NEW i \in 0 .. n - 1, c = cell(i), d \in screen
          PROVE  LineAfter(c, d)
      <4>1. c.row = lastLine - lineCount - i /\ c.msg = idx /\ c.line = len - i
        BY <1>5, <3>3
      <4>2. i = 0 /\ d.row = lastLine - lineCount + 1 /\ lineCount # 0
        BY <1>0, <1>8, <2>2, <3>3, <4>1
      <4>3. PICK e \in screen : /\ e.row = lastLine - lineCount + 1 /\ e.msg = idx + 1
                                /\ e.line = 1 \/ lineCount = totalLines
        BY <1>4, <4>2 DEF LinesFollow
      <4>4. d = e
        BY <1>4, <3>3, <4>2, <4>3 DEF RowsFilled
      <4>5. e.line = 1
        BY <1>0, <1>2, <4>3
      <4>6. c.line = len /\ Height(c.msg) = len /\ ~(len < len)
        BY <1>2, <4>1, <4>2
      <4> QED BY <4>1, <4>3, <4>4, <4>5, <4>6 DEF LineAfter
    <3>4. ASSUME NEW i \in 0 .. n - 1, d = cell(i), c \in screen
          PROVE  FALSE
      <4>1. d.row = lastLine - lineCount - i
        BY <1>5, <3>4
      <4> QED BY <1>0, <1>8, <2>2, <3>4, <4>1
    <3> QED BY <1>6, <3>1, <3>2, <3>3, <3>4
  <2>3. lineCount' # 0 /\ idx' >= 0 /\ lineCount' <= totalLines
    BY <1>0, <1>2
  <2>4. \E c \in screen' : /\ c.row = lastLine - lineCount' + 1 /\ c.msg = idx' + 1
                           /\ c.line = 1 \/ lineCount' = totalLines
    <3>1. n - 1 \in 0 .. n - 1
      OBVIOUS
    <3>2. /\ cell(n - 1) \in screen'
          /\ cell(n - 1).row = lastLine - lineCount - (n - 1)
          /\ cell(n - 1).msg = idx /\ cell(n - 1).line = len - (n - 1)
      BY <1>5, <3>1
    <3>3. lastLine - lineCount - (n - 1) = lastLine - lineCount' + 1 /\ idx = idx' + 1
      BY <1>0, <1>2
    <3>4. len - (n - 1) = 1 \/ lineCount' = totalLines
      BY <1>0, <1>2
    <3> QED BY <3>2, <3>3, <3>4
  <2>5. \A c, d : LineAfter(c, d) = (IF c.line < Height(c.msg) THEN d.msg = c.msg /\ d.line = c.line + 1
                                     ELSE d.msg = c.msg + 1 /\ d.line = 1)
    BY DEF LineAfter
  <2>6. \A c, d \in screen' : d.row = c.row + 1 =>
            (IF c.line < Height(c.msg)' THEN d.msg = c.msg /\ d.line = c.line + 1
             ELSE d.msg = c.msg + 1 /\ d.line = 1)
    BY <1>3, <2>2, <2>5
  <2>7. Height(Newest)' = Height(Newest)
    BY <1>2, <1>3 DEF Height
  <2> QED BY <1>3, <2>1, <2>3, <2>4, <2>6, <2>7 DEF LinesFollow, LineAfter
<1>12. StampsPlaced'
  <2> SUFFICES ASSUME NEW s \in stamps'
               PROVE  /\ s.msg > idx'
                      /\ \/ \E c \in screen' : c.msg = s.msg /\ c.line = 1 /\ c.row = s.row
                         \/ /\ \A c \in screen' : ~(c.msg = s.msg /\ c.line = 1)
                            /\ s.msg = idx' + 1 /\ lineCount' = totalLines
                            /\ s.row <= firstLine
    BY <1>3 DEF StampsPlaced
  <2>1. CASE s \in stamps
    <3>1. s.msg \in Nat
      BY <1>0, <2>1
    <3>2. s.msg > idx /\ \E c \in screen : c.msg = s.msg /\ c.line = 1 /\ c.row = s.row
      BY <1>0, <1>2, <1>4, <2>1 DEF StampsPlaced
    <3>3. s.msg > idx'
      BY <1>0, <1>2, <3>1, <3>2
    <3> QED BY <1>7, <3>2, <3>3
  <2>2. CASE s = [row |-> lastLine - lineCount - len + 1, msg |-> idx]
    <3>1. s.row = lastLine - lineCount - len + 1 /\ s.msg = idx
      BY <2>2
    <3>2. s.msg > idx' /\ s.msg = idx' + 1
      BY <1>0, <1>2, <3>1
    <3>3. CASE n = len
      <4>1. n - 1 \in 0 .. n - 1
        OBVIOUS
      <4>2. /\ cell(n - 1) \in screen'
            /\ cell(n - 1).row = lastLine - lineCount - (n - 1)
            /\ cell(n - 1).msg = idx /\ cell(n - 1).line = len - (n - 1)
        BY <1>5, <4>1
      <4>3. lastLine - lineCount - (n - 1) = s.row /\ len - (n - 1) = 1
        BY <1>0, <3>1, <3>3
      <4> QED BY <3>1, <3>2, <4>2, <4>3
    <3>4. CASE n # len
      <4>1. lineCount' = totalLines /\ s.row <= firstLine
        BY <1>0, <1>2, <3>1, <3>4
      <4>2. ASSUME NEW c \in screen', c.msg = s.msg, c.line = 1
            PROVE  FALSE
        <5>1. CASE c \in screen
          BY <1>0, <1>8, <3>1, <4>2, <5>1
        <5>2. ASSUME NEW i \in 0 .. n - 1, c = cell(i)
              PROVE  FALSE
          <6>1. len - i = 1
            BY <1>5, <4>2, <5>2
          <6> QED BY <1>2, <3>4, <6>1
        <5> QED BY <1>6, <5>1, <5>2
      <4> QED BY <3>2, <4>1, <4>2
    <3> QED BY <3>3, <3>4
  <2> QED BY <1>2, <2>1, <2>2
<1>13. Stamped'
  <2>1. Stamped
    BY <1>1 DEF DrawInv
  <2>2. {s.msg : s \in stamps'} = {s.msg : s \in stamps} \cup {idx}
    <3>1. PICK new : new = [row |-> lastLine - lineCount - len + 1, msg |-> idx]
      OBVIOUS
    <3>2. new.msg = idx
      BY <3>1
    <3>3. stamps' = stamps \cup {new}
      BY <1>2, <3>1
    <3> QED BY <3>2, <3>3
  <2>3. {c.msg : c \in screen'} = {c.msg : c \in screen} \cup {idx}
    <3>1. 0 \in 0 .. n - 1
      BY <1>0, <1>2
    <3>2. cell(0) \in screen' /\ cell(0).msg = idx
      BY <1>5, <3>1
    <3>3. \A c \in screen' : c \in screen \/ c.msg = idx
      BY <1>5, <1>6
    <3> QED BY <1>7, <3>2, <3>3
  <2> QED BY <2>1, <2>2, <2>3 DEF Stamped
<1> QED BY <1>1, <1>3, <1>10, <1>11, <1>12, <1>13 DEF DrawInv

\* The other steps of the console leave the screen of a round as it is:
\* messages are only appended, behind those that are drawn.
LEMMA AppendKeeps ==
    ASSUME TypeOK, DrawInv, Appended, UNCHANGED <<drawing, LINES>>,
           \/ pc' = pc
           \/ pc = "loop" /\ pc' = "getch" /\ ~(lineCount < totalLines /\ idx > 0)
    PROVE  DrawInv'
<1>0. /\ idx \in Int /\ lineCount \in Nat /\ totalLines \in Int
      /\ screen \subseteq [row : Int, msg : Nat, line : Nat]
      /\ Newest \in Int
  BY ConsoleAssumption DEF TypeOK, lastLine, totalLines, firstLine, Newest
<1>1. UNCHANGED <<idx, lineCount, screen, stamps, begun>>
  BY DEF drawing
<1>2. /\ lastLine' = lastLine /\ totalLines' = totalLines /\ firstLine' = firstLine
      /\ Newest' = Newest
  BY <1>1 DEF lastLine, totalLines, firstLine, Newest
<1>3. /\ Len(messages) \in Nat /\ Len(messages') \in Nat /\ Len(messages) <= Len(messages')
      /\ \A k \in 1 .. Len(messages) : messages'[k] = messages[k]
  BY MessagesGrow
<1>4. CASE pc' \notin {"loop", "getch"}
  BY <1>4 DEF DrawInv
<1>5. CASE pc' \in {"loop", "getch"}
  <2>1. Newest < Len(messages) /\ RowsFilled /\ LinesFollow /\ StampsPlaced /\ Stamped
    BY <1>5 DEF DrawInv
  <2>2. Newest' < Len(messages')
    BY <1>0, <1>2, <1>3, <2>1
  <2>3. \A c \in screen : Height(c.msg)' = Height(c.msg)
    <3> TAKE c \in screen
    <3>1. c.msg \in Nat /\ c.msg <= Newest
      BY <1>0, <2>1 DEF RowsFilled
    <3>2. c.msg + 1 \in 1 .. Len(messages)
      BY <1>0, <1>3, <2>1, <3>1
    <3> QED BY <1>1, <1>3, <3>2 DEF Height
  <2>4. RowsFilled'
    BY <1>1, <1>2, <2>1, <2>3 DEF RowsFilled
  <2>5. LinesFollow'
    <3>1. \A c \in screen' : c.row = lastLine' => c.msg = Newest' /\ c.line = Height(Newest)'
      <4> SUFFICES ASSUME NEW c \in screen, c.row = lastLine
                   PROVE  c.msg = Newest /\ c.line = Height(Newest)'
        BY <1>1, <1>2
      <4>1. c.msg = Newest /\ c.line = Height(Newest)
        BY <2>1 DEF LinesFollow
      <4>2. Newest \in Nat
        BY <1>0, <4>1
      <4>3. Newest + 1 \in 1 .. Len(messages)
        BY <1>3, <2>1, <4>2
      <4>4. Height(Newest)' = Height(Newest)
        BY <1>2, <1>3, <4>3 DEF Height
      <4> QED BY <4>1, <4>4
    <3>2. \A c, d \in screen' : d.row = c.row + 1 => LineAfter(c, d)'
      <4> SUFFICES ASSUME NEW c \in screen, NEW d \in screen, d.row = c.row + 1
                   PROVE  LineAfter(c, d)'
        BY <1>1
      <4>1. LineAfter(c, d)
        BY <2>1 DEF LinesFollow
      <4>2. Height(c.msg)' = Height(c.msg)
        BY <2>3
      <4> QED BY <4>1, <4>2 DEF LineAfter
    <3>3. IF lineCount' = 0 THEN idx' = Newest'
          ELSE /\ idx' >= 0
               /\ lineCount' <= totalLines'
               /\ \E c \in screen' : /\ c.row = lastLine' - lineCount' + 1 /\ c.msg = idx' + 1
                                     /\ c.line = 1 \/ lineCount' = totalLines'
      BY <1>1, <1>2, <2>1 DEF LinesFollow
    <3> QED BY <3>1, <3>2, <3>3 DEF LinesFollow
  <2>6. StampsPlaced'
    BY <1>1, <1>2, <2>1 DEF StampsPlaced
  <2>7. Stamped'
    BY <1>1, <2>1 DEF Stamped
  <2>8. pc' = "getch" => lineCount' >= totalLines' \/ idx' <= 0
    BY <1>0, <1>1, <1>2 DEF DrawInv
  <2> QED BY <2>2, <2>4, <2>5, <2>6, <2>7, <2>8 DEF DrawInv
<1> QED BY <1>4, <1>5

LEMMA DrawStep ==
    ASSUME TypeOK, Inside, DrawInv, [Next]_vars
    PROVE  DrawInv'
<1>1. /\ Appended
      /\ \/ DrawStart \/ DrawMessage
         \/ /\ UNCHANGED drawing
            /\ \/ pc' = pc /\ UNCHANGED LINES
               \/ DrawEnd
               \/ pc' \in {"draw", "end"}
  BY WhatSteps
<1>2. CASE DrawStart
  <2>0. Len(messages) \in Nat /\ messageCursor \in Nat /\ lastLine \in Int
    BY ConsoleAssumption, LenProperties DEF TypeOK, lastLine
  <2>1. /\ idx' = Len(messages) - messageCursor - 1 /\ lineCount' = 0 /\ screen' = {}
        /\ stamps' = {} /\ begun' = [size |-> Len(messages), cursor |-> messageCursor]
        /\ messages' = messages /\ LINES' = LINES /\ pc' = "loop"
    BY <1>2 DEF DrawStart
  <2>2. Newest' = idx' /\ Newest' < Len(messages')
    BY <2>0, <2>1 DEF Newest
  <2>3. lastLine' = lastLine /\ lastLine - 0 + 1 .. lastLine = {}
    BY <2>0, <2>1 DEF lastLine
  <2>4. RowsFilled'
    BY <2>0, <2>1, <2>3 DEF RowsFilled
  <2>5. LinesFollow' /\ StampsPlaced' /\ Stamped'
    BY <2>1, <2>2 DEF LinesFollow, StampsPlaced, Stamped
  <2> QED BY <2>1, <2>2, <2>4, <2>5 DEF DrawInv
<1>3. CASE DrawMessage
  BY <1>3, DrawMessageKeeps
<1>4. CASE UNCHANGED drawing /\ pc' = pc /\ UNCHANGED LINES
  BY <1>1, <1>4, AppendKeeps
<1>5. CASE DrawEnd
  <2>1. /\ pc = "loop" /\ pc' = "getch" /\ ~(lineCount < totalLines /\ idx > 0)
        /\ UNCHANGED <<drawing, LINES>>
    BY <1>5 DEF DrawEnd
  <2> QED BY <1>1, <2>1, AppendKeeps
<1>6. CASE pc' \in {"draw", "end"}
  BY <1>6 DEF DrawInv
<1> QED BY <1>1, <1>2, <1>3, <1>4, <1>5, <1>6

LEMMA DrawCorrect == Spec => [](TypeOK /\ DrawInv)
<1>1. Init => DrawInv
  BY DEF Init, DrawInv
<1>2. TypeOK /\ Inside /\ DrawInv /\ [Next]_vars => (TypeOK /\ Inside /\ DrawInv)'
  BY TypesStep, DrawStep
<1> QED BY <1>1, <1>2, TypesInit, PTL DEF Spec

\* Every message on the screen, and no other, has a timestamp, beside its first
\* line; only that of a message cut off at the top is above the area, for
\* terminals of every height, even those without room for a line.
THEOREM StampsAreOnFirstLines == Spec => []StampOnFirstLine
<1>1. TypeOK /\ DrawInv => StampOnFirstLine
  <2> SUFFICES ASSUME TypeOK, DrawInv, pc = "getch", NEW s \in stamps
               PROVE  LET first == {c \in screen : c.msg = s.msg /\ c.line = 1} IN
                      IF first # {} THEN \A c \in first : c.row = s.row
                      ELSE /\ \A c \in screen : c.row > s.row /\ c.msg >= s.msg
                           /\ s.row <= firstLine /\ lineCount = totalLines
    BY DEF StampOnFirstLine, DrawInv
  <2>0. /\ idx \in Int /\ lineCount \in Nat /\ lastLine \in Int
        /\ totalLines = lastLine - 2 /\ firstLine = 2
        /\ screen \subseteq [row : Int, msg : Nat, line : Nat]
        /\ s.row \in Int /\ s.msg \in Nat
    BY ConsoleAssumption DEF TypeOK, lastLine, totalLines, firstLine
  <2>1. RowsFilled /\ StampsPlaced
    BY DEF DrawInv
  <2> DEFINE first == {c \in screen : c.msg = s.msg /\ c.line = 1}
  <2>2. CASE \E c \in first : c.row = s.row
    BY <2>1, <2>2 DEF RowsFilled
  <2>3. CASE first = {} /\ s.msg = idx + 1 /\ lineCount = totalLines /\ s.row <= firstLine
    <3>1. ASSUME NEW c \in screen
          PROVE  c.row > s.row /\ c.msg >= s.msg
      <4>1. /\ c.row \in lastLine - lineCount + 1 .. lastLine
            /\ c.msg \in Nat /\ c.msg >= idx + 1
        BY <2>0, <2>1 DEF RowsFilled
      <4> QED BY <2>0, <2>3, <4>1
    <3> QED BY <2>3, <3>1
  <2> QED BY <2>1, <2>2, <2>3 DEF StampsPlaced
<1> QED BY <1>1, DrawCorrect, PTL

-----------------------------------------------------------------------------
(* The text of which the screen is a window.                               *)

\* The lines of the messages 1 to k, in order.
IsText(t, k) ==
    /\ t \in Seq([msg : Nat, line : Nat]) /\ Len(t) > 0
    /\ t[1].msg = 1 /\ t[1].line = 1
    /\ t[Len(t)].msg = k /\ t[Len(t)].line = Height(k)
    /\ \A p \in 1 .. Len(t) : t[p].msg > 0 /\ t[p].line \in 1 .. Height(t[p].msg)
    /\ \A p \in 1 .. Len(t) - 1 : LineAfter(t[p], t[p + 1])

\* One message.
Body(k) == [j \in 1 .. messages[k + 1] + 1 |-> [msg |-> k, line |-> j]]

LEMMA BodyLines ==
    ASSUME NEW k \in Nat \ {0}, messages[k + 1] \in Nat
    PROVE  /\ Body(k) \in Seq([msg : Nat, line : Nat])
           /\ Height(k) \in Nat \ {0} /\ Len(Body(k)) = Height(k)
           /\ \A j \in 1 .. Height(k) : Body(k)[j].msg = k /\ Body(k)[j].line = j
<1>1. Height(k) \in Nat \ {0}
  BY DEF Height
<1>2. Body(k) = [j \in 1 .. Height(k) |-> [msg |-> k, line |-> j]]
  BY DEF Body, Height
<1>3. PICK h \in Nat \ {0} : h = Height(k)
  BY <1>1
<1>4. [j \in 1 .. h |-> [msg |-> k, line |-> j]] \in Seq([msg : Nat, line : Nat])
  <2>1. \A j \in 1 .. h : [msg |-> k, line |-> j] \in [msg : Nat, line : Nat]
    OBVIOUS
  <2> QED BY <2>1, IsASeq
<1>5. Body(k) \in Seq([msg : Nat, line : Nat]) /\ DOMAIN Body(k) = 1 .. h
  BY <1>2, <1>3, <1>4
<1>6. Len(Body(k)) = h
  BY <1>5, LenProperties
<1> QED BY <1>1, <1>2, <1>3, <1>5, <1>6

LEMMA FirstText ==
    ASSUME messages[2] \in Nat
    PROVE  IsText(Body(1), 1)
<1>1. PICK k \in Nat \ {0} : k = 1
  OBVIOUS
<1>2. messages[k + 1] \in Nat
  BY <1>1
<1>3. PICK b : b = Body(k)
  OBVIOUS
<1>4. PICK h : h = Height(k)
  OBVIOUS
<1>5. /\ b \in Seq([msg : Nat, line : Nat]) /\ h \in Nat \ {0} /\ Len(b) = h
      /\ \A j \in 1 .. h : b[j].msg = 1 /\ b[j].line = j
  BY <1>1, <1>2, <1>3, <1>4, BodyLines
<1>6. /\ Len(b) > 0 /\ 1 \in 1 .. h /\ h \in 1 .. h
  BY <1>5
<1>7. \A p \in 1 .. Len(b) : b[p].msg > 0 /\ b[p].line \in 1 .. Height(b[p].msg)
  BY <1>1, <1>4, <1>5
<1>8. \A p \in 1 .. Len(b) - 1 : LineAfter(b[p], b[p + 1])
  <2> TAKE p \in 1 .. Len(b) - 1
  <2>1. p \in 1 .. h /\ p + 1 \in 1 .. h /\ p < h
    BY <1>5
  <2>2. b[p].msg = 1 /\ b[p].line = p /\ b[p + 1].msg = 1 /\ b[p + 1].line = p + 1
    BY <1>5, <2>1
  <2> QED BY <1>1, <1>4, <2>1, <2>2 DEF LineAfter
<1> QED BY <1>1, <1>3, <1>4, <1>5, <1>6, <1>7, <1>8 DEF IsText

LEMMA LongerText ==
    ASSUME NEW t, NEW k \in Nat \ {0}, IsText(t, k), messages[k + 2] \in Nat
    PROVE  IsText(t \o Body(k + 1), k + 1)
<1> DEFINE R == [msg : Nat, line : Nat]
<1>1. PICK m \in Nat \ {0} : m = k + 1 /\ k = m - 1
  OBVIOUS
<1>2. messages[m + 1] \in Nat
  BY <1>1
<1>3. PICK b : b = Body(m)
  OBVIOUS
<1>4. PICK h : h = Height(m)
  OBVIOUS
<1>5. /\ b \in Seq(R) /\ h \in Nat \ {0} /\ Len(b) = h
      /\ \A j \in 1 .. h : b[j].msg = m /\ b[j].line = j
  BY <1>2, <1>3, <1>4, BodyLines
<1>6. PICK l : l = Len(t)
  OBVIOUS
<1>7. /\ t \in Seq(R) /\ l \in Nat \ {0}
      /\ t[1].msg = 1 /\ t[1].line = 1
      /\ t[l].msg = k /\ t[l].line = Height(k)
      /\ \A p \in 1 .. l : t[p].msg > 0 /\ t[p].line \in 1 .. Height(t[p].msg)
      /\ \A p \in 1 .. l - 1 : LineAfter(t[p], t[p + 1])
  <2>1. t \in Seq(R)
    BY DEF IsText
  <2>2. Len(t) \in Nat
    BY <2>1, LenProperties
  <2> QED BY <1>6, <2>1, <2>2 DEF IsText
<1>8. PICK u : u = t \o b
  OBVIOUS
<1>9. /\ u \in Seq(R) /\ Len(u) = l + h
      /\ \A p \in 1 .. l : u[p] = t[p]
      /\ \A p \in 1 .. h : u[l + p] = b[p]
  <2>1. /\ t \o b \in Seq(R) /\ Len(t \o b) = Len(t) + Len(b)
        /\ \A p \in 1 .. Len(t) + Len(b) :
              (t \o b)[p] = IF p <= Len(t) THEN t[p] ELSE b[p - Len(t)]
    BY <1>5, <1>7, ConcatProperties
  <2>2. \A p \in 1 .. l + h : u[p] = IF p <= l THEN t[p] ELSE b[p - l]
    BY <1>5, <1>6, <1>8, <2>1
  <2>3. \A p \in 1 .. l : u[p] = t[p]
    BY <1>5, <1>7, <2>2
  <2>4. \A p \in 1 .. h : u[l + p] = b[p]
    <3> TAKE p \in 1 .. h
    <3>1. l + p \in 1 .. l + h /\ ~(l + p <= l) /\ (l + p) - l = p
      BY <1>5, <1>7
    <3> QED BY <2>2, <3>1
  <2> QED BY <1>5, <1>6, <1>8, <2>1, <2>3, <2>4
<1>10. \A p \in 1 .. l + h : p \in 1 .. l \/ \E q \in 1 .. h : p = l + q
  <2> TAKE p \in 1 .. l + h
  <2>1. PICK q : q = p - l
    OBVIOUS
  <2>2. p \in 1 .. l \/ (q \in 1 .. h /\ p = l + q)
    BY <1>5, <1>7, <2>1
  <2> QED BY <2>2
<1>11. Len(u) > 0 /\ u[1].msg = 1 /\ u[1].line = 1
  <2>1. 1 \in 1 .. l /\ l + h > 0
    BY <1>5, <1>7
  <2> QED BY <1>7, <1>9, <2>1
<1>12. u[Len(u)].msg = m /\ u[Len(u)].line = h
  <2>1. h \in 1 .. h
    BY <1>5
  <2> QED BY <1>5, <1>9, <2>1
<1>13. ASSUME NEW p \in 1 .. Len(u)
       PROVE  u[p].msg > 0 /\ u[p].line \in 1 .. Height(u[p].msg)
  <2>1. CASE p \in 1 .. l
    BY <1>7, <1>9, <2>1
  <2>2. ASSUME NEW q \in 1 .. h, p = l + q
        PROVE  u[p].msg > 0 /\ u[p].line \in 1 .. Height(u[p].msg)
    <3>1. u[p].msg = m /\ u[p].line = q
      BY <1>5, <1>9, <2>2
    <3>2. m > 0
      OBVIOUS
    <3> QED BY <1>4, <3>1, <3>2
  <2> QED BY <1>9, <1>10, <2>1, <2>2
<1>14. ASSUME NEW p \in 1 .. Len(u) - 1
       PROVE  LineAfter(u[p], u[p + 1])
  <2>1. CASE p \in 1 .. l - 1
    <3>0. l \in Nat
      BY <1>7
    <3>1. p \in 1 .. l /\ p + 1 \in 1 .. l
      BY <2>1, <3>0
    <3>2. u[p] = t[p] /\ u[p + 1] = t[p + 1]
      BY <1>9, <3>1
    <3> QED BY <1>7, <2>1, <3>2
  <2>2. CASE p = l
    <3>1. l \in 1 .. l /\ 1 \in 1 .. h
      BY <1>5, <1>7
    <3>2. u[p] = t[l] /\ u[p + 1] = b[1]
      BY <1>9, <2>2, <3>1
    <3>3. u[p + 1].msg = m /\ u[p + 1].line = 1 /\ u[p].msg = k /\ u[p].line = Height(k)
      BY <1>5, <1>7, <3>1, <3>2
    <3>4. Height(k) \in Int
      <4>1. t[l].line \in Nat
        BY <1>7, <3>1
      <4> QED BY <1>7, <4>1
    <3>5. ~(u[p].line < Height(u[p].msg)) /\ u[p + 1].msg = u[p].msg + 1
      BY <1>1, <3>3, <3>4
    <3> QED BY <3>3, <3>5 DEF LineAfter
  <2>3. CASE p > l
    <3>1. PICK q : q = p - l
      OBVIOUS
    <3>2. q \in 1 .. h /\ q + 1 \in 1 .. h /\ p = l + q /\ p + 1 = l + (q + 1) /\ q < h
      BY <1>5, <1>7, <1>9, <2>3, <3>1
    <3>3. u[p] = b[q] /\ u[p + 1] = b[q + 1]
      BY <1>9, <3>2
    <3>4. u[p].msg = m /\ u[p].line = q /\ u[p + 1].msg = m /\ u[p + 1].line = q + 1
      BY <1>5, <3>2, <3>3
    <3> QED BY <1>4, <3>2, <3>4 DEF LineAfter
  <2>4. p \in Nat /\ p > 0
    OBVIOUS
  <2> QED BY <1>7, <2>1, <2>2, <2>3, <2>4
<1>15. IsText(u, m)
  BY <1>4, <1>9, <1>11, <1>12, <1>13, <1>14 DEF IsText
<1> QED BY <1>1, <1>3, <1>8, <1>15

\* What Text is.
LEMMA TextLines ==
    ASSUME TypeOK, Newest < Len(messages)
    PROVE  /\ Newest <= 0 => Len(Text) = 0
           /\ Newest > 0 => IsText(Text, Newest)
<1>1. PICK K : K = Newest
  OBVIOUS
<1>2. K \in Int /\ Len(messages) \in Nat
  BY <1>1, LenProperties DEF TypeOK, Newest
<1>3. PICK parts : parts = [k \in 1 .. K |-> Body(k)]
  OBVIOUS
<1>4. Text = FlattenSeq(parts)
  BY <1>1, <1>3 DEF Text, Body, Newest
<1>5. CASE K <= 0
  <2>1. 1 .. K = {}
    BY <1>2, <1>5
  <2>2. DOMAIN parts = {} /\ parts = <<>>
    BY <1>3, <2>1
  <2>3. FlattenSeq(parts) = parts /\ Len(parts) = 0
    BY <2>2 DEF FlattenSeq
  <2> QED BY <1>1, <1>2, <1>4, <1>5, <2>3
<1>6. CASE K > 0
  <2>1. K \in Nat \ {0} /\ K < Len(messages)
    BY <1>1, <1>2, <1>6
  <2>2. \A k \in 1 .. K : messages[k + 1] \in Nat
    <3> TAKE k \in 1 .. K
    <3>1. k + 1 \in 1 .. Len(messages)
      BY <1>2, <2>1
    <3> QED BY <3>1, ElementOfSeq DEF TypeOK
  <2>3. Len(parts) = K
    <3>1. parts \in Seq({Body(k) : k \in 1 .. K})
      BY <1>3, <2>1, IsASeq
    <3> QED BY <1>3, <2>1, <3>1, LenProperties
  <2>4. PICK f : /\ f = [i \in 1 .. K |-> IF i = 1 THEN parts[i] ELSE f[i - 1] \o parts[i]]
                 /\ FlattenSeq(parts) = f[K]
    BY <2>1, <2>3, Flatten
  <2> DEFINE P == {k \in Nat : k \in 1 .. K => IsText(f[k], k)}
  <2>5. 1 \in P
    <3>1. 1 \in 1 .. K /\ messages[2] \in Nat
      BY <2>1, <2>2
    <3>2. f[1] = Body(1)
      BY <1>3, <2>4, <3>1
    <3> QED BY <3>1, <3>2, FirstText
  <2>6. ASSUME NEW k \in 1 .. K - 1, k \in P
        PROVE  k + 1 \in P
    <3>1. /\ k \in Nat \ {0} /\ k \in 1 .. K /\ k + 1 \in 1 .. K /\ k + 1 # 1
          /\ (k + 1) - 1 = k /\ (k + 1) + 1 = k + 2
      BY <2>1
    <3>2. f[k + 1] = f[k] \o Body(k + 1)
      BY <1>3, <2>4, <3>1
    <3>3. IsText(f[k], k)
      BY <2>6, <3>1
    <3>4. messages[k + 2] \in Nat
      BY <2>2, <3>1
    <3>5. IsText(f[k + 1], k + 1)
      BY <3>1, <3>2, <3>3, <3>4, LongerText
    <3> QED BY <3>1, <3>5
  <2>7. K \in P
    <3>1. P \in SUBSET Nat
      OBVIOUS
    <3> HIDE DEF P
    <3>2. 1 .. K \subseteq P
      BY <2>1, <2>5, <2>6, <3>1, UpTo
    <3> QED BY <2>1, <3>2
  <2>8. IsText(f[K], K)
    BY <2>1, <2>7
  <2>9. IsText(Text, Newest)
    BY <1>1, <1>4, <2>4, <2>8
  <2>10. ~(Newest <= 0)
    BY <1>1, <1>2, <1>6
  <2> QED BY <2>9, <2>10
<1> QED BY <1>2, <1>5, <1>6

\* Two lines before the same line are the same.
LEMMA LineBefore ==
    ASSUME NEW c, NEW d, NEW e, NEW g,
           c.msg \in Nat, c.line \in Nat \ {0}, c.line <= Height(c.msg), Height(c.msg) \in Nat,
           d.msg \in Nat, d.line \in Nat \ {0}, d.line <= Height(d.msg), Height(d.msg) \in Nat,
           LineAfter(c, e), LineAfter(d, g), e.msg = g.msg, e.line = g.line
    PROVE  c.msg = d.msg /\ c.line = d.line
<1>0. PICK cm \in Nat, dm \in Nat, cl \in Nat \ {0}, dl \in Nat \ {0} :
        cm = c.msg /\ dm = d.msg /\ cl = c.line /\ dl = d.line
  OBVIOUS
<1>1. CASE c.line < Height(c.msg) /\ d.line < Height(d.msg)
  BY <1>1 DEF LineAfter
<1>2. CASE ~(c.line < Height(c.msg)) /\ ~(d.line < Height(d.msg))
  <2>1. e.msg = c.msg + 1 /\ g.msg = d.msg + 1
    BY <1>2 DEF LineAfter
  <2>2. c.msg = d.msg
    <3>1. cm + 1 = dm + 1
      BY <1>0, <2>1
    <3>2. cm = dm
      BY <3>1
    <3> QED BY <1>0, <3>2
  <2>3. c.line = Height(c.msg) /\ d.line = Height(d.msg)
    BY <1>2
  <2> QED BY <2>2, <2>3
<1>3. CASE c.line < Height(c.msg) /\ ~(d.line < Height(d.msg))
  <2>1. e.line = c.line + 1 /\ g.line = 1
    BY <1>3 DEF LineAfter
  <2>2. cl + 1 = 1
    BY <1>0, <2>1
  <2> QED BY <2>2
<1>4. CASE ~(c.line < Height(c.msg)) /\ d.line < Height(d.msg)
  <2>1. g.line = d.line + 1 /\ e.line = 1
    BY <1>4 DEF LineAfter
  <2>2. dl + 1 = 1
    BY <1>0, <2>1
  <2> QED BY <2>2
<1> QED BY <1>1, <1>2, <1>3, <1>4

\* The cells of the screen, counted from the bottom, are the lines of the text,
\* counted from its end.
LEMMA CellsAreText ==
    ASSUME TypeOK, Newest < Len(messages), RowsFilled, LinesFollow, lineCount # 0
    PROVE  /\ Newest > 0 /\ lineCount <= Len(Text)
           /\ \A c \in screen : /\ c.row \in lastLine - lineCount + 1 .. lastLine
                                /\ c.msg = Text[Len(Text) - (lastLine - c.row)].msg
                                /\ c.line = Text[Len(Text) - (lastLine - c.row)].line
<1>0. /\ idx \in Int /\ lineCount \in Nat \ {0} /\ Len(messages) \in Nat /\ lastLine \in Int
      /\ screen \subseteq [row : Int, msg : Nat, line : Nat] /\ Newest \in Int
  BY ConsoleAssumption, LenProperties DEF TypeOK, lastLine, Newest
<1>1. \A c \in screen : /\ c.row \in Int /\ c.msg \in Nat /\ c.line \in Nat
                        /\ c.row \in lastLine - lineCount + 1 .. lastLine
                        /\ c.msg \in idx + 1 .. Newest
                        /\ c.line \in 1 .. Height(c.msg)
  BY <1>0 DEF RowsFilled
<1>2. idx >= 0
  BY <1>0 DEF LinesFollow
<1>3. \A r \in lastLine - lineCount + 1 .. lastLine : \E c \in screen : c.row = r
  BY DEF RowsFilled
<1>4. \A c \in screen : c.msg > 0 /\ Newest > 0 /\ Height(c.msg) \in Nat
  <2> TAKE c \in screen
  <2>1. c.msg > 0 /\ c.msg <= Newest
    BY <1>0, <1>1, <1>2
  <2>2. c.msg + 1 \in 1 .. Len(messages)
    BY <1>0, <1>1, <2>1
  <2>3. messages[c.msg + 1] \in Nat
    BY <2>2, ElementOfSeq DEF TypeOK
  <2> QED BY <1>0, <1>1, <2>1, <2>3 DEF Height
<1>5. Newest > 0
  <2>1. lastLine \in lastLine - lineCount + 1 .. lastLine
    BY <1>0
  <2> QED BY <1>3, <1>4, <2>1
<1>6. PICK t : t = Text
  OBVIOUS
<1>7. PICK l : l = Len(t)
  OBVIOUS
<1>8. IsText(t, Newest)
  BY <1>5, <1>6, TextLines
<1>9. /\ t \in Seq([msg : Nat, line : Nat]) /\ l \in Nat \ {0}
      /\ t[1].msg = 1 /\ t[1].line = 1
      /\ t[l].msg = Newest /\ t[l].line = Height(Newest)
      /\ \A p \in 1 .. l : /\ t[p].msg \in Nat /\ t[p].line \in Nat
                           /\ t[p].msg > 0 /\ t[p].line \in 1 .. Height(t[p].msg)
      /\ \A p \in 1 .. l - 1 : LineAfter(t[p], t[p + 1])
  <2>1. t \in Seq([msg : Nat, line : Nat])
    BY <1>8 DEF IsText
  <2>2. Len(t) \in Nat /\ \A p \in 1 .. Len(t) : t[p] \in [msg : Nat, line : Nat]
    BY <2>1, LenProperties, ElementOfSeq
  <2> QED BY <1>7, <1>8, <2>1, <2>2 DEF IsText
\* q lines up from the bottom.
<1> DEFINE Same(q) == /\ q <= l
                      /\ \A c \in screen : c.row = lastLine - q + 1 =>
                            c.msg = t[l - q + 1].msg /\ c.line = t[l - q + 1].line
           P == {q \in Nat : Same(q)}
<1>10. 1 \in P
  <2>1. l - 1 + 1 = l /\ lastLine - 1 + 1 = lastLine /\ 1 <= l
    BY <1>0, <1>9
  <2>2. \A c \in screen : c.row = lastLine => c.msg = t[l].msg /\ c.line = t[l].line
    BY <1>9 DEF LinesFollow
  <2> QED BY <2>1, <2>2
<1>11. ASSUME NEW q \in 1 .. lineCount - 1, q \in P
       PROVE  q + 1 \in P
  <2>1. /\ q \in Nat \ {0} /\ q + 1 <= lineCount
        /\ lastLine - q + 1 \in lastLine - lineCount + 1 .. lastLine
        /\ lastLine - (q + 1) + 1 \in lastLine - lineCount + 1 .. lastLine
        /\ (lastLine - (q + 1) + 1) + 1 = lastLine - q + 1
    BY <1>0
  <2>2. PICK d \in screen : d.row = lastLine - q + 1
    BY <1>3, <2>1
  <2>3. PICK p : p = l - q + 1
    OBVIOUS
  <2>4. q <= l /\ d.msg = t[p].msg /\ d.line = t[p].line
    BY <1>11, <2>2, <2>3
  <2>5. p \in 1 .. l
    BY <1>9, <2>1, <2>3, <2>4
  <2>6. PICK c \in screen : c.row = lastLine - (q + 1) + 1
    BY <1>3, <2>1
  <2>7. LineAfter(c, d)
    <3>1. d.row = c.row + 1
      BY <2>1, <2>2, <2>6
    <3> QED BY <3>1 DEF LinesFollow
  <2>8. /\ c.msg \in Nat /\ c.msg > 0 /\ c.line \in Nat \ {0} /\ c.line <= Height(c.msg)
        /\ Height(c.msg) \in Nat
    BY <1>1, <1>4
  <2>9. p # 1
    <3> SUFFICES ASSUME p = 1 PROVE FALSE
      OBVIOUS
    <3>1. d.msg = 1 /\ d.line = 1
      BY <1>9, <2>4
    <3>2. CASE c.line < Height(c.msg)
      <4>1. d.line = c.line + 1
        BY <2>7, <3>2 DEF LineAfter
      <4> QED BY <2>8, <3>1, <4>1
    <3>3. CASE ~(c.line < Height(c.msg))
      <4>1. d.msg = c.msg + 1
        BY <2>7, <3>3 DEF LineAfter
      <4> QED BY <2>8, <3>1, <4>1
    <3> QED BY <3>2, <3>3
  <2>10. PICK o : o = p - 1
    OBVIOUS
  <2>11. o \in 1 .. l /\ o \in 1 .. l - 1 /\ o + 1 = p /\ l - (q + 1) + 1 = o /\ q + 1 <= l
    BY <1>9, <2>1, <2>3, <2>5, <2>9, <2>10
  <2>12. LineAfter(t[o], t[p])
    BY <1>9, <2>11
  <2>13. /\ t[o].msg \in Nat /\ t[o].line \in Nat /\ t[o].line \in 1 .. Height(t[o].msg)
    BY <1>9, <2>11
  <2>14. Height(t[o].msg) \in Nat
    <3>1. t[o].msg <= Newest
      <4>1. t[o].msg <= d.msg
        <5>1. t[p].msg = t[o].msg \/ t[p].msg = t[o].msg + 1
          BY <2>12 DEF LineAfter
        <5> QED BY <2>4, <2>13, <5>1
      <4>2. d.msg <= Newest /\ d.msg \in Nat
        BY <1>0, <1>1
      <4> QED BY <1>0, <2>13, <4>1, <4>2
    <3>2. t[o].msg + 1 \in 1 .. Len(messages)
      BY <1>0, <2>13, <3>1
    <3>3. messages[t[o].msg + 1] \in Nat
      BY <3>2, ElementOfSeq DEF TypeOK
    <3> QED BY <3>3 DEF Height
  <2>15. t[o].line \in Nat \ {0} /\ t[o].line <= Height(t[o].msg)
    BY <2>13, <2>14
  <2>16. c.msg = t[o].msg /\ c.line = t[o].line
    BY <2>4, <2>7, <2>8, <2>12, <2>13, <2>14, <2>15, LineBefore
  <2>17. \A e \in screen : e.row = lastLine - (q + 1) + 1 => e = c
    BY <2>6 DEF RowsFilled
  <2>18. \A e \in screen : e.row = lastLine - (q + 1) + 1 =>
                e.msg = t[l - (q + 1) + 1].msg /\ e.line = t[l - (q + 1) + 1].line
    BY <2>11, <2>16, <2>17
  <2>19. Same(q + 1)
    BY <2>11, <2>18
  <2> HIDE DEF Same
  <2>20. q + 1 \in Nat
    BY <2>1
  <2> QED BY <2>19, <2>20
<1>12. 1 .. lineCount \subseteq P
  <2>1. P \in SUBSET Nat
    OBVIOUS
  <2> HIDE DEF P
  <2>2. lineCount \in Nat
    BY <1>0
  <2> QED BY <1>10, <1>11, <2>1, <2>2, UpTo
<1>13. lineCount <= l
  <2>1. lineCount \in 1 .. lineCount
    BY <1>0
  <2> QED BY <1>12, <2>1
<1>14. ASSUME NEW c \in screen
       PROVE  c.msg = t[l - (lastLine - c.row)].msg /\ c.line = t[l - (lastLine - c.row)].line
  <2>1. PICK q : q = lastLine - c.row + 1
    OBVIOUS
  <2>2. q \in 1 .. lineCount /\ c.row = lastLine - q + 1 /\ l - (lastLine - c.row) = l - q + 1
    <3>1. c.row \in Int /\ c.row >= lastLine - lineCount + 1 /\ c.row <= lastLine
      BY <1>0, <1>1
    <3>2. l \in Nat
      BY <1>9
    <3>3. lastLine \in Int /\ lineCount \in Nat
      BY <1>0
    <3>4. q \in Int /\ q >= 1 /\ q <= lineCount
      BY <2>1, <3>1, <3>3
    <3>5. c.row = lastLine - q + 1
      BY <2>1, <3>1, <3>3
    <3>6. l - (lastLine - c.row) = l - q + 1
      BY <3>1, <3>2, <3>3, <3>4, <3>5
    <3> QED BY <3>3, <3>4, <3>5, <3>6
  <2>3. Same(q)
    BY <1>12, <2>2
  <2> QED BY <2>2, <2>3
<1> QED BY <1>1, <1>5, <1>6, <1>7, <1>13, <1>14

\* What the user sees are the last lines of the text above the cursor, as many
\* as there is room for, with the last in the last row: DrawMessages neither
\* skips nor repeats a line, however tall the terminal and the messages are and
\* whenever messages arrive.
THEOREM ScreensAreWindows == Spec => []ScreenIsWindow
<1>1. TypeOK /\ DrawInv => ScreenIsWindow
  <2> SUFFICES ASSUME TypeOK, DrawInv, pc = "getch"
               PROVE  LET n == Max({0, Min({totalLines, Len(Text)})})
                      IN  screen = {[row |-> lastLine - n + i,
                                     msg |-> Text[Len(Text) - n + i].msg,
                                     line |-> Text[Len(Text) - n + i].line] : i \in 1 .. n}
    BY DEF ScreenIsWindow
  <2>0. /\ idx \in Int /\ lineCount \in Nat /\ lastLine \in Int /\ totalLines \in Int
        /\ screen \subseteq [row : Int, msg : Nat, line : Nat] /\ Newest \in Int
    BY ConsoleAssumption DEF TypeOK, lastLine, totalLines, firstLine, Newest
  <2>1. /\ Newest < Len(messages) /\ RowsFilled /\ LinesFollow
        /\ lineCount >= totalLines \/ idx <= 0
    BY DEF DrawInv
  <2>2. PICK t : t = Text
    OBVIOUS
  <2>3. PICK l : l = Len(t)
    OBVIOUS
  <2>4. l \in Nat
    <3>1. Newest > 0 => t \in Seq([msg : Nat, line : Nat])
      BY <2>1, <2>2, TextLines DEF IsText
    <3>2. Newest > 0 => Len(t) \in Nat
      BY <3>1, LenProperties
    <3>3. Newest <= 0 => Len(t) = 0
      BY <2>1, <2>2, TextLines
    <3> QED BY <2>0, <2>3, <3>2, <3>3
  <2>5. PICK n : n = Max({0, Min({totalLines, l})})
    OBVIOUS
  <2>6. n = IF totalLines <= l THEN (IF 0 <= totalLines THEN totalLines ELSE 0) ELSE l
    <3>1. PICK m : m = Min({totalLines, l})
      OBVIOUS
    <3>2. l \in Int /\ m = IF totalLines <= l THEN totalLines ELSE l
      BY <2>0, <2>4, <3>1, MinMaxOfTwo
    <3>3. m \in Int /\ 0 \in Int
      BY <2>0, <3>2
    <3>4. n = IF 0 <= m THEN m ELSE 0
      BY <2>5, <3>1, <3>3, MinMaxOfTwo
    <3> QED BY <2>0, <2>4, <3>2, <3>4
  <2>7. CASE lineCount = 0
    <3>1. screen = {}
      <4>1. lastLine - lineCount + 1 .. lastLine = {}
        BY <2>0, <2>7
      <4> QED BY <2>1, <4>1 DEF RowsFilled
    <3>2. n = 0
      <4>1. CASE 0 >= totalLines
        BY <2>0, <2>4, <2>6, <4>1
      <4>2. CASE idx <= 0
        <5>1. Newest <= 0
          BY <2>1, <2>7, <4>2 DEF LinesFollow
        <5>2. l = 0
          BY <2>1, <2>2, <2>3, <5>1, TextLines
        <5> QED BY <2>0, <2>6, <5>2
      <4> QED BY <2>1, <2>7, <4>1, <4>2
    <3>3. 1 .. n = {}
      BY <3>2
    <3> QED BY <2>2, <2>3, <2>5, <3>1, <3>3
  <2>8. CASE lineCount # 0
    <3>1. /\ Newest > 0 /\ lineCount <= l
          /\ \A c \in screen : /\ c.row \in lastLine - lineCount + 1 .. lastLine
                               /\ c.msg = t[l - (lastLine - c.row)].msg
                               /\ c.line = t[l - (lastLine - c.row)].line
      BY <2>1, <2>2, <2>3, <2>8, CellsAreText
    <3>2. PICK top \in screen : /\ top.row = lastLine - lineCount + 1 /\ top.msg = idx + 1
                                /\ top.line = 1 \/ lineCount = totalLines
      BY <2>1, <2>8 DEF LinesFollow
    <3>3. idx >= 0 /\ lineCount <= totalLines
      BY <2>1, <2>8 DEF LinesFollow
    <3>4. IsText(t, Newest)
      BY <2>1, <2>2, <3>1, TextLines
    <3>5. lineCount = totalLines \/ lineCount = l
      <4> SUFFICES ASSUME lineCount # totalLines PROVE lineCount = l
        OBVIOUS
      <4>1. top.msg = 1 /\ top.line = 1
        BY <2>0, <2>1, <3>2, <3>3
      <4>2. PICK p : p = l - lineCount + 1
        OBVIOUS
      <4>3. p \in 1 .. l /\ p = l - (lastLine - (lastLine - lineCount + 1))
        BY <2>0, <2>4, <2>8, <3>1, <4>2
      <4>4. t[p].msg = 1 /\ t[p].line = 1
        BY <3>1, <3>2, <4>1, <4>3
      <4>5. p = 1
        <5> SUFFICES ASSUME p # 1 PROVE FALSE
          OBVIOUS
        <5>1. PICK o : o = p - 1
          OBVIOUS
        <5>2. o \in 1 .. l /\ o \in 1 .. l - 1 /\ o + 1 = p
          BY <2>4, <4>3, <5>1
        <5>3. /\ LineAfter(t[o], t[p]) /\ t[o].msg > 0 /\ t[o].line \in 1 .. Height(t[o].msg)
          BY <2>3, <3>4, <5>2 DEF IsText
        <5>4. t[o].msg \in Nat /\ t[o].line \in Nat
          <6>1. t[o] \in [msg : Nat, line : Nat]
            BY <2>3, <3>4, <5>2, ElementOfSeq DEF IsText
          <6> QED BY <6>1
        <5>5. t[o].line > 0
          BY <5>3
        <5>6. 1 = t[o].line + 1 \/ 1 = t[o].msg + 1
          BY <4>4, <5>3 DEF LineAfter
        <5> QED BY <5>3, <5>4, <5>5, <5>6
      <4> QED BY <2>0, <2>4, <4>2, <4>5
    <3>6. n = lineCount
      BY <2>0, <2>4, <2>6, <3>1, <3>3, <3>5
    <3> DEFINE W(i) == [row |-> lastLine - n + i, msg |-> t[l - n + i].msg,
                        line |-> t[l - n + i].line]
    <3>7. ASSUME NEW c \in screen
          PROVE  \E i \in 1 .. n : c = W(i)
      <4>1. PICK i : i = c.row - (lastLine - n)
        OBVIOUS
      <4>2. c.row \in Int /\ c.row \in lastLine - n + 1 .. lastLine
        BY <2>0, <3>1, <3>6
      <4>3. i \in 1 .. n /\ c.row = lastLine - n + i /\ l - (lastLine - c.row) = l - n + i
        BY <2>0, <2>4, <3>6, <4>1, <4>2
      <4>4. c.msg = t[l - n + i].msg /\ c.line = t[l - n + i].line
        BY <3>1, <4>3
      <4>5. c = [row |-> c.row, msg |-> c.msg, line |-> c.line]
        BY <2>0
      <4> QED BY <4>3, <4>4, <4>5
    <3>8. ASSUME NEW i \in 1 .. n
          PROVE  W(i) \in screen
      <4>1. lastLine - n + i \in lastLine - lineCount + 1 .. lastLine
        BY <2>0, <3>6
      <4>2. PICK c \in screen : c.row = lastLine - n + i
        BY <2>1, <4>1 DEF RowsFilled
      <4>3. l - (lastLine - c.row) = l - n + i
        BY <2>0, <2>4, <3>6, <4>2
      <4>4. c.msg = t[l - n + i].msg /\ c.line = t[l - n + i].line
        BY <3>1, <4>3
      <4>5. c = [row |-> c.row, msg |-> c.msg, line |-> c.line]
        BY <2>0
      <4> QED BY <4>2, <4>4, <4>5
    <3>9. screen = {W(i) : i \in 1 .. n}
      BY <3>7, <3>8
    <3> QED BY <2>2, <2>3, <2>5, <3>9
  <2> QED BY <2>7, <2>8
<1> QED BY <1>1, DrawCorrect, PTL

=============================================================================
