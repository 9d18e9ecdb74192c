------------------------------ MODULE Console -------------------------------
(***************************************************************************)
(* The main thread of the console: MainLoop draws the list of messages and *)
(* waits for a key, while the threads of the client append messages.       *)
(*                                                                         *)
(* DrawMessages takes the size of the list and the cursor once, and then   *)
(* fetches one message after the other, from the newest to the oldest, and *)
(* draws its lines from the last line of the area upwards.  A message is   *)
(* represented by the number of lines in its body, and a line of text by   *)
(* its length.  What happens when two threads append at the same time is   *)
(* in Client.                                                              *)
(***************************************************************************)
EXTENDS Integers, Sequences, SequencesExt, FiniteSetsExt

CONSTANTS
    Heights,        \* the heights a terminal may have or be resized to
    Bodies,         \* how many lines the bodies of incoming messages have
    HelpLines,      \* how many the text of /help has
    MaxMessages,    \* bound: messages in the list
    MaxInput        \* bound: characters of the line that is edited

ASSUME ConsoleAssumption ==
    /\ Heights \subseteq Nat /\ Bodies \subseteq Nat
    /\ {HelpLines, MaxMessages, MaxInput} \subseteq Nat

VARIABLES
    LINES,          \* the height of the terminal
    messages, messageCursor, userInput, running,
    pc,             \* "draw", "loop" in DrawMessages, "getch", or "end"
    idx,            \* currentMessageIdx, counted from 0
    lineCount,
    screen,         \* the lines of messages on the screen, with their rows
    stamps,         \* the timestamps on the screen, with their rows
    begun           \* history: the size and the cursor when the draw began

vars == <<LINES, messages, messageCursor, userInput, running, pc, idx, lineCount,
          screen, stamps, begun>>
drawing == <<idx, lineCount, screen, stamps, begun>>

firstLine  == 2
lastLine   == LINES - 4
totalLines == lastLine - firstLine

Init ==
    /\ LINES \in Heights
    /\ messages = <<>> /\ messageCursor = 0 /\ userInput = 0 /\ running = TRUE
    /\ pc = "draw" /\ idx = 0 /\ lineCount = 0
    /\ screen = {} /\ stamps = {}
    /\ begun = [size |-> 0, cursor |-> 0]

-----------------------------------------------------------------------------
(* MainLoop.                                                               *)

\* A round begins with clear(); DrawMessages starts below the newest message
\* by as many messages as the cursor says.
DrawStart ==
    /\ pc = "draw" /\ running
    /\ pc' = "loop"
    /\ idx' = Len(messages) - messageCursor - 1
    /\ lineCount' = 0
    /\ screen' = {} /\ stamps' = {}
    /\ begun' = [size |-> Len(messages), cursor |-> messageCursor]
    /\ UNCHANGED <<LINES, messages, messageCursor, userInput, running>>

\* Seeded fault: the lines of a message are all drawn.
AllLines(len) == len

\* How many of the lines of a message fit.
FittingLines(len) == Min({len, totalLines - lineCount})

\* Seeded fault: one row too high.
StampRowAbove(len) == lastLine - lineCount - len

StampRow(len) == lastLine - lineCount - len + 1

\* One message, with a blank line after its body; the loop ends before the
\* message with index 0.
DrawMessage ==
    LET len == messages[idx + 1] + 1
        n   == FittingLines(len)
    IN
    /\ pc = "loop" /\ lineCount < totalLines /\ idx > 0
    /\ stamps' = stamps \cup {[row |-> StampRow(len), msg |-> idx]}
    /\ screen' = screen \cup
         {[row |-> lastLine - lineCount - i, msg |-> idx, line |-> len - i] : i \in 0 .. n - 1}
    /\ lineCount' = lineCount + n
    /\ idx' = idx - 1
    /\ UNCHANGED <<LINES, messages, messageCursor, userInput, running, pc, begun>>

DrawEnd ==
    /\ pc = "loop" /\ ~(lineCount < totalLines /\ idx > 0)
    /\ pc' = "getch"
    /\ UNCHANGED <<LINES, messages, messageCursor, userInput, running, drawing>>

\* endwin()
Leave ==
    /\ pc = "draw" /\ ~running
    /\ pc' = "end"
    /\ UNCHANGED <<LINES, messages, messageCursor, userInput, running, drawing>>

-----------------------------------------------------------------------------
(* GetUserInput.                                                           *)

Key == pc = "getch" /\ pc' = "draw" /\ UNCHANGED drawing

Character ==
    /\ Key
    /\ userInput < MaxInput
    /\ userInput' = userInput + 1
    /\ UNCHANGED <<LINES, messages, messageCursor, running>>

\* getch returns KEY_RESIZE, a key without a case of its own.
Resize ==
    /\ Key
    /\ userInput < MaxInput
    /\ userInput' = userInput + 1
    /\ LINES' \in Heights
    /\ UNCHANGED <<messages, messageCursor, running>>

Backspace ==
    /\ Key
    /\ userInput' = Max({userInput - 1, 0})
    /\ UNCHANGED <<LINES, messages, messageCursor, running>>

\* HandleUserInput: a command has at least two characters.  /help and a
\* /follow without a name append to the list; the rest is in Client.
Enter(line) ==
    /\ Key
    /\ line # "post" => userInput > 1
    /\ userInput' = 0
    /\ line \in {"help", "usage"} => Len(messages) < MaxMessages
    /\ messages' = CASE line = "help"  -> Append(messages, HelpLines)
                     [] line = "usage" -> Append(messages, 1)
                     [] OTHER          -> messages
    /\ running' = (line # "exit")
    /\ UNCHANGED <<LINES, messageCursor>>

CtrlC ==
    /\ Key
    /\ running' = FALSE
    /\ UNCHANGED <<LINES, messages, messageCursor, userInput>>

\* Seeded fault: no test of the size.
UpUnbounded ==
    /\ Key
    /\ messageCursor' = messageCursor + 1
    /\ UNCHANGED <<LINES, messages, userInput, running>>

Up ==
    /\ Key
    /\ messageCursor' = Min({messageCursor + 1, Len(messages)})
    /\ UNCHANGED <<LINES, messages, userInput, running>>

Down ==
    /\ Key
    /\ messageCursor' = Max({messageCursor - 1, 0})
    /\ UNCHANGED <<LINES, messages, userInput, running>>

-----------------------------------------------------------------------------

\* A thread of the client appends a message, at any moment.
IncomingMessageHandler(body) ==
    /\ pc # "end" /\ Len(messages) < MaxMessages
    /\ messages' = Append(messages, body)
    /\ UNCHANGED <<LINES, messageCursor, userInput, running, pc, drawing>>

Quiescent == pc = "end" /\ UNCHANGED vars

Next ==
    \/ DrawStart \/ DrawMessage \/ DrawEnd \/ Leave
    \/ Character \/ Resize \/ Backspace \/ CtrlC \/ Up \/ Down
    \/ \E line \in {"post", "follow", "help", "usage", "exit"} : Enter(line)
    \/ \E body \in Bodies : IncomingMessageHandler(body)
    \/ Quiescent

Spec == Init /\ [][Next]_vars

-----------------------------------------------------------------------------
(* Properties.                                                             *)

\* The type of every variable; the cursor moves at most one message past the
\* oldest.
TypeOK ==
    /\ LINES \in Heights
    /\ messages \in Seq(Nat) /\ Len(messages) <= MaxMessages
    /\ messageCursor \in 0 .. Len(messages)
    /\ userInput \in 0 .. MaxInput
    /\ running \in BOOLEAN
    /\ pc \in {"draw", "loop", "getch", "end"}
    /\ idx \in Int /\ lineCount \in Nat
    /\ screen \subseteq [row : Int, msg : Nat, line : Nat]
    /\ stamps \subseteq [row : Int, msg : Nat]
    /\ begun \in [size : Nat, cursor : Nat]

\* All the lines above the cursor, in order: each message but the oldest.
Text ==
    FlattenSeq([k \in 1 .. begun.size - begun.cursor - 1 |->
        [j \in 1 .. messages[k + 1] + 1 |-> [msg |-> k, line |-> j]]])

\* What the user sees while getch waits are the last lines of that text, as
\* many as there is room for, with the last of them in the last row of the
\* area: DrawMessages, which counts rows and indexes downwards and cuts
\* messages, neither skips nor repeats a line nor leaves the area, and messages
\* that arrive while it draws do not disturb it.  The message with index 0 is
\* never among them (console.cpp:220).
ScreenIsWindow ==
    pc = "getch" =>
        LET n == Max({0, Min({totalLines, Len(Text)})})
        IN  screen = {[row |-> lastLine - n + i,
                       msg |-> Text[Len(Text) - n + i].msg,
                       line |-> Text[Len(Text) - n + i].line] : i \in 1 .. n}

\* The messages that have a timestamp are those on the screen.
Stamped == {s.msg : s \in stamps} = {c.msg : c \in screen}

\* Every message on the screen, and no other, has a timestamp, and has it in the
\* row of its first line; that of a message cut off at the top, and of no other,
\* is above the area.
StampOnFirstLine ==
    pc = "getch" =>
        /\ Stamped
        /\ \A s \in stamps :
            LET first == {c \in screen : c.msg = s.msg /\ c.line = 1} IN
            IF first # {} THEN \A c \in first : c.row = s.row
            ELSE /\ \A c \in screen : c.row > s.row /\ c.msg >= s.msg
                 /\ s.row <= firstLine /\ lineCount = totalLines

-----------------------------------------------------------------------------
(* Inductive invariants.                                                   *)

\* The newest message that is drawn, and the lines a message has.
Newest == begun.size - begun.cursor - 1
Height(k) == messages[k + 1] + 1

\* d is the line of text after c.
LineAfter(c, d) ==
    IF c.line < Height(c.msg) THEN d.msg = c.msg /\ d.line = c.line + 1
    ELSE d.msg = c.msg + 1 /\ d.line = 1

\* The rows that DrawMessages has filled, and with which lines.
RowsFilled ==
    /\ \A c \in screen : /\ c.row \in lastLine - lineCount + 1 .. lastLine
                         /\ c.msg \in idx + 1 .. Newest
                         /\ c.line \in 1 .. Height(c.msg)
    /\ \A r \in lastLine - lineCount + 1 .. lastLine : \E c \in screen : c.row = r
    /\ \A c, d \in screen : c.row = d.row => c = d
    /\ \A c, d \in screen : c.msg = d.msg /\ c.line = d.line => c = d

\* They follow one another down to the end of the newest message, and the
\* highest one is the first of its message unless the area is full.
LinesFollow ==
    /\ \A c \in screen : c.row = lastLine => c.msg = Newest /\ c.line = Height(Newest)
    /\ \A c, d \in screen : d.row = c.row + 1 => LineAfter(c, d)
    /\ IF lineCount = 0 THEN idx = Newest
       ELSE /\ idx >= 0
            /\ lineCount <= totalLines
            /\ \E c \in screen : /\ c.row = lastLine - lineCount + 1 /\ c.msg = idx + 1
                                 /\ c.line = 1 \/ lineCount = totalLines

StampsPlaced ==
    \A s \in stamps :
        LET first == {c \in screen : c.msg = s.msg /\ c.line = 1} IN
        /\ s.msg > idx
        /\ \/ \E c \in first : c.row = s.row
           \/ first = {} /\ s.msg = idx + 1 /\ lineCount = totalLines /\ s.row <= firstLine

DrawInv ==
    /\ pc \in {"loop", "getch"} =>
        /\ Newest < Len(messages)
        /\ RowsFilled
        /\ LinesFollow
        /\ StampsPlaced
        /\ Stamped
    /\ pc = "getch" => lineCount >= totalLines \/ idx <= 0

=============================================================================
