-------------------------- MODULE ConsoleUIProofs --------------------------
(***************************************************************************)
(* No message is lost, doubled or overtaken on its way to the terminal,    *)
(* and waiting is for all that was printed before, for any number of       *)
(* threads, messages and lines.  The invariant says in addition that the   *)
(* lock is held exactly while messages are put on the screen, and that     *)
(* there is no prompt as long as some are left to put there.               *)
(***************************************************************************)
EXTENDS ConsoleUI, TLAPS

Message == [n : Nat, newline : BOOLEAN]

Caller == [at   : {"idle", "checking", "waiting", "quitting", "joining"},
           call : {"none", "wait", "stop"}]

QueuesOK ==
  /\ output \in Seq(Message) /\ prompt \in Seq(Message) /\ screen \in Seq(Message)
  /\ printed \in Nat /\ due \in [Clients -> Nat]
  /\ caller \in [Clients -> Caller]

LockOK ==
  /\ thread = "printing" <=> holder # "nobody"
  /\ thread = "printing" /\ output # <<>> => prompt = <<>>

\* Everybody who waits was there when the messages it waits for were printed.
DueOK == \A c \in Clients : due[c] <= printed

\* MessagesInOrder, part by part.
NumbersOK ==
  /\ \A i \in 1..Len(screen) : screen[i].n = i
  /\ \A i \in 1..Len(prompt) : prompt[i].n = Len(screen) + i
  /\ \A i \in 1..Len(output) : output[i].n = Len(screen) + Len(prompt) + i
  /\ Len(screen) + Len(prompt) + Len(output) = printed

ConsoleInv == QueuesOK /\ LockOK /\ DueOK /\ NumbersOK
-----------------------------------------------------------------------------
LEMMA ConsoleInvInit == Init => ConsoleInv
<1> SUFFICES ASSUME Init PROVE ConsoleInv OBVIOUS
<1>1. Idle \in Caller BY DEF Idle, Caller
<1>2. QueuesOK BY <1>1 DEF Init, QueuesOK
<1>3. NumbersOK BY DEF Init, NumbersOK
<1> QED BY <1>2, <1>3 DEF Init, ConsoleInv, LockOK, DueOK

\* The prompt joins what is on the screen.
LEMMA ShownType ==
  ASSUME QueuesOK, NumbersOK
  PROVE  /\ Shown \in Seq(Message) /\ Len(Shown) = Len(screen) + Len(prompt)
         /\ \A i \in 1..Len(Shown) : Shown[i].n = i
<1>1. /\ Shown \in Seq(Message) /\ Len(Shown) = Len(screen) + Len(prompt)
      /\ \A i \in 1..Len(Shown) :
            Shown[i] = IF i <= Len(screen) THEN screen[i] ELSE prompt[i - Len(screen)]
  BY DEF QueuesOK, Shown
<1>2. Len(screen) \in Nat /\ Len(prompt) \in Nat BY DEF QueuesOK
<1>3. ASSUME NEW i \in 1..Len(Shown) PROVE Shown[i].n = i
  <2>1. CASE i <= Len(screen)
    <3>1. i \in 1..Len(screen) /\ Shown[i] = screen[i] BY <1>1, <1>2, <2>1
    <3> QED BY <3>1 DEF NumbersOK
  <2>2. CASE i > Len(screen)
    <3> DEFINE j == i - Len(screen)
    <3>1. j \in 1..Len(prompt) /\ Shown[i] = prompt[j] /\ Len(screen) + j = i BY <1>1, <1>2, <2>2
    <3>2. prompt[j].n = Len(screen) + j BY <3>1 DEF NumbersOK
    <3> QED BY <3>1, <3>2
  <2> QED BY <1>1, <1>2, <2>1, <2>2
<1> QED BY <1>1, <1>3

LEMMA NumbersInOrder == QueuesOK /\ NumbersOK => MessagesInOrder
<1> SUFFICES ASSUME QueuesOK, NumbersOK PROVE MessagesInOrder OBVIOUS
<1>1. /\ Len(Shown \o output) = Len(Shown) + Len(output)
      /\ \A i \in 1..(Len(Shown) + Len(output)) :
            (Shown \o output)[i] = IF i <= Len(Shown) THEN Shown[i] ELSE output[i - Len(Shown)]
  BY ShownType DEF QueuesOK
<1> Len(screen) \in Nat /\ Len(prompt) \in Nat /\ Len(output) \in Nat BY DEF QueuesOK
<1> Len(Shown) = Len(screen) + Len(prompt) BY ShownType
<1> Len(screen) + Len(prompt) + Len(output) = printed BY DEF NumbersOK
<1>2. Len(Shown) + Len(output) = printed /\ Len(Shown) \in Nat /\ Len(output) \in Nat
  OBVIOUS
<1>3. ASSUME NEW i \in 1..printed PROVE (Shown \o output)[i].n = i
  <2>1. CASE i <= Len(Shown)
    <3>1. i \in 1..Len(Shown) /\ (Shown \o output)[i] = Shown[i] BY <1>1, <1>2, <2>1
    <3> QED BY <3>1, ShownType
  <2>2. CASE i > Len(Shown)
    <3> DEFINE j == i - Len(Shown)
    <3>1. j \in 1..Len(output) /\ (Shown \o output)[i] = output[j] /\ Len(Shown) + j = i
      BY <1>1, <1>2, <2>2
    <3>2. output[j].n = Len(Shown) + j BY <3>1, ShownType DEF NumbersOK
    <3> QED BY <3>1, <3>2
  <2> QED BY <1>1, <1>2, <2>1, <2>2
<1> QED BY <1>1, <1>2, <1>3 DEF MessagesInOrder

\* The prompt goes up on the screen: when a line ends, and before printing.
LEMMA PromptShown ==
  ASSUME QueuesOK, NumbersOK, screen' = Shown, prompt' = <<>>, UNCHANGED <<output, printed>>
  PROVE  NumbersOK' /\ screen' \in Seq(Message) /\ prompt' \in Seq(Message)
<1>1. Len(prompt') = 0 /\ prompt' \in Seq(Message) OBVIOUS
<1>2. Len(screen) \in Nat /\ Len(prompt) \in Nat /\ Len(output) \in Nat BY DEF QueuesOK
<1>3. Len(screen') + Len(prompt') = Len(screen) + Len(prompt) BY <1>1, <1>2, ShownType
<1>4. \A i \in 1..Len(screen') : screen'[i].n = i BY ShownType
<1>5. Len(screen) + Len(prompt) + Len(output) = printed
      /\ \A i \in 1..Len(output) : output[i].n = Len(screen) + Len(prompt) + i
  BY DEF NumbersOK
<1>6. output' = output /\ printed' = printed OBVIOUS
<1>7. Len(screen') + Len(prompt') + Len(output') = printed' BY <1>3, <1>5, <1>6
<1>8. \A i \in 1..Len(output') : output'[i].n = Len(screen') + Len(prompt') + i
  BY <1>3, <1>5, <1>6
<1>9. \A i \in 1..Len(prompt') : prompt'[i].n = Len(screen') + i BY <1>1
<1>10. screen' \in Seq(Message) BY ShownType
<1> QED BY <1>1, <1>4, <1>7, <1>8, <1>9, <1>10 DEF NumbersOK

\* The first message of the queue goes to the screen, or becomes the prompt.
LEMMA MessagePut ==
  ASSUME QueuesOK, NumbersOK, prompt = <<>>, output # <<>>, output' = Tail(output), UNCHANGED printed,
         \/ Len(output) = 1 /\ prompt' = <<Head(output)>> /\ UNCHANGED screen
         \/ screen' = Append(screen, Head(output)) /\ UNCHANGED prompt
  PROVE  NumbersOK' /\ screen' \in Seq(Message) /\ prompt' \in Seq(Message) /\ output' \in Seq(Message)
<1>1. /\ Head(output) \in Message /\ Head(output).n = Len(screen) + 1
      /\ Len(output) \in Nat \ {0} /\ Len(prompt) = 0
  BY DEF QueuesOK, NumbersOK
<1>2. /\ output' \in Seq(Message) /\ Len(output') = Len(output) - 1
      /\ \A i \in 1..Len(output') : output'[i] = output[i + 1] /\ i + 1 \in 1..Len(output)
  BY DEF QueuesOK
<1>3. CASE Len(output) = 1 /\ prompt' = <<Head(output)>> /\ UNCHANGED screen
  <2>1. Len(output') = 0 /\ prompt' \in Seq(Message) /\ Len(prompt') = 1 /\ prompt'[1] = Head(output)
    BY <1>1, <1>2, <1>3
  <2>2. Len(screen) \in Nat /\ screen' = screen /\ screen \in Seq(Message) BY <1>3 DEF QueuesOK
  <2>3. \A i \in 1..Len(prompt') : prompt'[i].n = Len(screen') + i
    BY <1>1, <2>1, <2>2
  <2>4. \A i \in 1..Len(output') : output'[i].n = Len(screen') + Len(prompt') + i
    BY <2>1
  <2>5. Len(screen') + Len(prompt') + Len(output') = printed'
    <3>1. Len(screen) + Len(prompt) + Len(output) = printed BY DEF NumbersOK
    <3>2. Len(prompt) = 0 /\ Len(output) = 1 /\ Len(screen') = Len(screen) /\ printed' = printed
      BY <1>1, <1>3
    <3> QED BY <2>1, <2>2, <3>1, <3>2
  <2>6. \A i \in 1..Len(screen') : screen'[i].n = i BY <2>2 DEF NumbersOK
  <2> QED BY <1>2, <2>1, <2>2, <2>3, <2>4, <2>5, <2>6 DEF NumbersOK
<1>4. CASE screen' = Append(screen, Head(output)) /\ UNCHANGED prompt
  <2>1. /\ screen' \in Seq(Message) /\ Len(screen') = Len(screen) + 1
        /\ \A i \in 1..Len(screen') : screen'[i] = IF i <= Len(screen) THEN screen[i] ELSE Head(output)
    BY <1>1, <1>4 DEF QueuesOK
  <2>2. ASSUME NEW i \in 1..Len(screen') PROVE screen'[i].n = i
    <3>1. Len(screen) \in Nat BY DEF QueuesOK
    <3>2. CASE i <= Len(screen)
      <4>1. i \in 1..Len(screen) /\ screen'[i] = screen[i] BY <2>1, <3>1, <3>2
      <4> QED BY <4>1 DEF NumbersOK
    <3>3. CASE i > Len(screen)
      <4>1. i = Len(screen) + 1 /\ screen'[i] = Head(output) BY <2>1, <3>1, <3>3
      <4> QED BY <1>1, <4>1
    <3> QED BY <2>1, <3>1, <3>2, <3>3
  <2>3. \A i \in 1..Len(output') : output'[i].n = Len(screen') + i
    BY <1>1, <1>2, <2>1 DEF NumbersOK, QueuesOK
  <2>4. Len(prompt') = 0 /\ prompt' \in Seq(Message) /\ Len(screen) \in Nat
    BY <1>1, <1>4 DEF QueuesOK
  <2>5. Len(screen') + Len(prompt') + Len(output') = printed'
    <3>1. Len(screen) + Len(prompt) + Len(output) = printed BY DEF NumbersOK
    <3> QED BY <1>1, <1>2, <2>1, <2>4, <3>1
  <2>6. \A i \in 1..Len(output') : output'[i].n = Len(screen') + Len(prompt') + i
    <3>1. Len(screen') + Len(prompt') = Len(screen') BY <2>1, <2>4
    <3> QED BY <2>3, <3>1
  <2>7. \A i \in 1..Len(prompt') : prompt'[i].n = Len(screen') + i BY <2>4
  <2> QED BY <1>2, <2>1, <2>2, <2>4, <2>5, <2>6, <2>7 DEF NumbersOK
<1> QED BY <1>3, <1>4

\* A message joins the queue.
LEMMA MessageQueued ==
  ASSUME QueuesOK, NumbersOK, NEW m \in Message, m.n = printed + 1,
         output' = Append(output, m), printed' = printed + 1, UNCHANGED <<screen, prompt>>
  PROVE  NumbersOK' /\ output' \in Seq(Message)
<1>1. /\ output' \in Seq(Message) /\ Len(output') = Len(output) + 1
      /\ \A i \in 1..Len(output') : output'[i] = IF i <= Len(output) THEN output[i] ELSE m
  BY DEF QueuesOK
<1>2. Len(screen) \in Nat /\ Len(prompt) \in Nat /\ Len(output) \in Nat BY DEF QueuesOK
<1>3. Len(screen) + Len(prompt) + Len(output) = printed
      /\ \A i \in 1..Len(output) : output[i].n = Len(screen) + Len(prompt) + i
  BY DEF NumbersOK
<1>4. screen' = screen /\ prompt' = prompt OBVIOUS
<1>5. Len(screen') + Len(prompt') + Len(output') = printed' BY <1>1, <1>2, <1>3, <1>4
<1>6. ASSUME NEW i \in 1..Len(output') PROVE output'[i].n = Len(screen') + Len(prompt') + i
  <2>1. CASE i <= Len(output)
    <3>1. i \in 1..Len(output) /\ output'[i] = output[i] BY <1>1, <1>2, <2>1
    <3> QED BY <3>1, <1>3, <1>4
  <2>2. CASE i > Len(output)
    <3>1. i = Len(output) + 1 /\ output'[i] = m BY <1>1, <1>2, <2>2
    <3>2. m.n = Len(screen) + Len(prompt) + i BY <1>2, <1>3, <3>1
    <3> QED BY <3>1, <3>2, <1>4
  <2> QED BY <1>1, <1>2, <2>1, <2>2
<1> QED BY <1>1, <1>4, <1>5, <1>6 DEF NumbersOK
-----------------------------------------------------------------------------
LEMMA ConsoleInvNext == ConsoleInv /\ [Next]_vars => ConsoleInv'
<1> SUFFICES ASSUME ConsoleInv, [Next]_vars PROVE ConsoleInv' OBVIOUS
<1> USE DEF ConsoleInv, vars, userVars, shownVars, clientVars
<1>1. ASSUME NEW k \in {"line", "enter", "end"}, Strike(k) PROVE ConsoleInv'
  BY <1>1 DEF Strike, QueuesOK, LockOK, DueOK, NumbersOK
<1>2. CASE HangUp BY <1>2 DEF HangUp, QueuesOK, LockOK, DueOK, NumbersOK
<1>3. CASE Loop BY <1>3 DEF Loop, QueuesOK, LockOK, DueOK, NumbersOK
<1>4. CASE NothingToRead BY <1>4 DEF NothingToRead, QueuesOK, LockOK, DueOK, NumbersOK
<1>5. CASE ReadChar
  <2>1. NumbersOK' /\ screen' \in Seq(Message) /\ prompt' \in Seq(Message)
    BY <1>5, PromptShown DEF ReadChar
  <2> QED BY <1>5, <2>1 DEF ReadChar, QueuesOK, LockOK, DueOK
<1>6. CASE BeginOutput
  <2>1. CASE output = <<>>
    BY <1>6, <2>1 DEF BeginOutput, QueuesOK, LockOK, DueOK, NumbersOK
  <2>2. CASE output # <<>>
    <3>1. NumbersOK' /\ screen' \in Seq(Message) /\ prompt' \in Seq(Message)
      BY <1>6, <2>2, PromptShown DEF BeginOutput
    <3> QED BY <1>6, <2>2, <3>1 DEF BeginOutput, QueuesOK, LockOK, DueOK
  <2> QED BY <2>1, <2>2
<1>7. CASE PutMessage
  <2>1. prompt = <<>> BY <1>7 DEF PutMessage, LockOK
  <2>2. /\ NumbersOK' /\ screen' \in Seq(Message) /\ prompt' \in Seq(Message)
        /\ output' \in Seq(Message)
    BY <1>7, <2>1, MessagePut DEF PutMessage
  <2>3. QueuesOK' BY <1>7, <2>2 DEF PutMessage, QueuesOK
  <2>4. output' # <<>> => prompt' = <<>>
    <3>1. CASE Len(output) = 1 /\ ~ Head(output).newline
      <4>1. output' = <<>> BY <1>7, <3>1 DEF PutMessage, QueuesOK
      <4> QED BY <4>1
    <3>2. CASE ~ (Len(output) = 1 /\ ~ Head(output).newline)
      BY <1>7, <2>1, <3>2 DEF PutMessage
    <3> QED BY <3>1, <3>2
  <2>5. LockOK' BY <1>7, <2>4 DEF PutMessage, LockOK
  <2> QED BY <1>7, <2>2, <2>3, <2>5 DEF PutMessage, DueOK
<1>8. Woken \in [Clients -> Caller] BY DEF Woken, QueuesOK, Caller
<1>9. CASE EndOutput
  BY <1>8, <1>9 DEF EndOutput, QueuesOK, LockOK, DueOK, NumbersOK
<1>10. ASSUME NEW c \in Clients, Start(c) PROVE ConsoleInv'
  BY <1>10 DEF Start, Started, QueuesOK, LockOK, DueOK, NumbersOK
<1>11. ASSUME NEW c \in Clients, NEW newline \in BOOLEAN, PrintMessage(c, newline) PROVE ConsoleInv'
  <2> DEFINE m == [n |-> printed + 1, newline |-> newline]
  <2>1. m \in Message /\ m.n = printed + 1 BY DEF Message, QueuesOK
  <2>2. output' = Append(output, m) /\ printed' = printed + 1 /\ UNCHANGED <<screen, prompt>>
    BY <1>11 DEF PrintMessage
  <2> HIDE DEF m
  <2>3. NumbersOK' /\ output' \in Seq(Message) BY <2>1, <2>2, MessageQueued
  <2>4. QueuesOK' BY <1>8, <1>11, <2>3 DEF PrintMessage, QueuesOK
  <2>5. LockOK' BY <1>11 DEF PrintMessage, LockOK
  <2>6. DueOK' BY <1>11 DEF PrintMessage, DueOK, QueuesOK
  <2> QED BY <2>3, <2>4, <2>5, <2>6
<1>12. ASSUME NEW c \in Clients, NEW call \in {"wait", "stop"}, BeginWait(c, call)
       PROVE  ConsoleInv'
  BY <1>12 DEF BeginWait, QueuesOK, Caller, LockOK, DueOK, NumbersOK
<1>13. ASSUME NEW c \in Clients, Check(c) PROVE ConsoleInv'
  <2>1. caller[c] \in Caller /\ caller \in [Clients -> Caller] BY DEF QueuesOK
  <2>2. caller' \in [Clients -> Caller]
    <3>1. [caller[c] EXCEPT !.at = "quitting"] \in Caller
          /\ [caller[c] EXCEPT !.at = "waiting"] \in Caller /\ Idle \in Caller
      BY <2>1 DEF Caller, Idle
    <3>2. \/ caller' = [caller EXCEPT ![c] = [caller[c] EXCEPT !.at = "quitting"]]
          \/ caller' = [caller EXCEPT ![c] = [caller[c] EXCEPT !.at = "waiting"]]
          \/ caller' = [caller EXCEPT ![c] = Idle]
      BY <1>13 DEF Check, Returned, At
    <3> QED BY <2>1, <3>1, <3>2
  <2>3. due' = due \/ due' = [due EXCEPT ![c] = 0] BY <1>13 DEF Check, Returned
  <2>4. due \in [Clients -> Nat] /\ printed \in Nat /\ printed' = printed
    BY <1>13 DEF Check, QueuesOK
  <2>5. due' \in [Clients -> Nat] BY <2>3, <2>4
  <2>6. DueOK' BY <2>3, <2>4 DEF DueOK
  <2>7. QueuesOK' BY <1>13, <2>2, <2>5 DEF Check, QueuesOK
  <2> QED BY <1>13, <2>6, <2>7 DEF Check, LockOK, NumbersOK
<1>14. ASSUME NEW c \in Clients, Quit(c) PROVE ConsoleInv'
  BY <1>14 DEF Quit, At, QueuesOK, Caller, LockOK, DueOK, NumbersOK
<1>15. ASSUME NEW c \in Clients, Join(c) PROVE ConsoleInv'
  BY <1>15 DEF Join, Idle, QueuesOK, Caller, LockOK, DueOK, NumbersOK
<1>16. ASSUME NEW c \in Clients, GetInput(c) PROVE ConsoleInv'
  BY <1>16 DEF GetInput, QueuesOK, LockOK, DueOK, NumbersOK
<1>17. CASE UNCHANGED vars BY <1>17 DEF QueuesOK, LockOK, DueOK, NumbersOK
<1> QED BY <1>1, <1>2, <1>3, <1>4, <1>5, <1>6, <1>7, <1>9, <1>10, <1>11, <1>12, <1>13,
           <1>14, <1>15, <1>16, <1>17 DEF Next, ThreadStep, ClientStep

\* The invariant, for any number of clients, messages and lines.
THEOREM ConsoleInvariant == Spec => []ConsoleInv
BY ConsoleInvInit, ConsoleInvNext, PTL DEF Spec

\* What is on the screen, the prompt and the queue are the messages printed, in
\* their order and each of them once, however many threads print and whatever
\* is typed in between (print, processOutput and lineRead in consoleui.cpp).
THEOREM NoMessageLost == Spec => []MessagesInOrder
<1>1. ConsoleInv => MessagesInOrder BY NumbersInOrder DEF ConsoleInv
<1> QED BY <1>1, ConsoleInvariant, PTL

\* Nobody comes back from waitUntilPrinted(), and no stop() ends the thread,
\* before everything printed earlier is on the screen.
THEOREM WaitsForEverything == Spec => WaitedForAll
<1>1. ASSUME ConsoleInv, [Next]_vars, NEW c \in Clients,
             caller[c].at \in {"checking", "waiting"}, caller'[c].at \in {"idle", "quitting"}
      PROVE  Len(Shown) >= due[c]
  <2> USE <1>1 DEF ConsoleInv
  <2>1. Check(c) /\ output = <<>>
    <3> USE DEF QueuesOK, Caller, vars, clientVars
    <3>1. ASSUME UNCHANGED caller PROVE FALSE BY <3>1
    <3>2. ASSUME caller' = Woken PROVE FALSE BY <3>2 DEF Woken
    <3>3. ASSUME NEW d \in Clients, NEW call \in {"wait", "stop"}, BeginWait(d, call) PROVE FALSE
      BY <3>3 DEF BeginWait, MayCall
    <3>4. ASSUME NEW d \in Clients, Quit(d) \/ Join(d) PROVE FALSE
      BY <3>4 DEF Quit, Join, At, Idle
    <3>5. ASSUME NEW d \in Clients, Check(d) PROVE d = c /\ output = <<>>
      BY <3>5 DEF Check, Returned, At, Idle
    <3>6. \E d \in Clients : Check(d)
      BY <1>1, <3>1, <3>2, <3>3, <3>4
         DEF Next, ThreadStep, ClientStep, Strike, HangUp, Loop, NothingToRead, ReadChar,
             BeginOutput, PutMessage, EndOutput, Start, PrintMessage, GetInput
    <3> QED BY <3>5, <3>6
  <2>2. Len(Shown) = Len(screen) + Len(prompt) BY ShownType
  <2>3. Len(screen) \in Nat /\ Len(prompt) \in Nat /\ Len(output) = 0 BY <2>1 DEF QueuesOK
  <2>4. Len(screen) + Len(prompt) + Len(output) = printed BY DEF NumbersOK
  <2>5. due[c] <= printed /\ due[c] \in Nat BY DEF DueOK, QueuesOK
  <2> QED BY <2>2, <2>3, <2>4, <2>5
<1>2. ConsoleInv /\ [Next]_vars
      => [\A c \in Clients :
            (caller[c].at \in {"checking", "waiting"} /\ caller'[c].at \in {"idle", "quitting"})
              => Len(Shown) >= due[c]]_vars
  BY <1>1
<1> QED BY <1>2, ConsoleInvariant, PTL DEF Spec, WaitedForAll
=============================================================================
