----------------------------- MODULE ConsoleUI -----------------------------
(***************************************************************************)
(* The console of a Unix terminal (unix/consoleui.cpp): a thread of its    *)
(* own reads lines and prints messages, with a queue for each under a lock *)
(* of its own; the program's threads print, wait until everything is       *)
(* printed, fetch lines, start and stop it.  A message that does not end   *)
(* with a newline stays on the line where the user types, as the prompt.   *)
(*                                                                         *)
(* A key stroke that does not end a line changes nothing but readline's    *)
(* own state and is left out; so are the cursor and the colours.  inputLock*)
(* is held for a single step at a time.  Messages are numbered in the      *)
(* order of print(); [n |-> 2, newline |-> TRUE] is the second.            *)
(***************************************************************************)
EXTENDS Integers, Sequences

CONSTANTS Clients,    \* the program's threads
          MaxPrints,  \* messages printed
          MaxKeys     \* lines typed, and ends of the input

VARIABLES keys,     \* what ends a line and has not been read: "line", "enter", "end"
          struck,   \* how many of them there have been
          hungUp,   \* the input has been closed and reads as ended for ever
          ended,    \* the input has ended, once or for ever
          thread,   \* where threadMain() is: "none" before start() and after stop()
          quit,
          input, output,
          holder,   \* who has outputLock between steps: "thread" or "nobody"
          prompt,   \* rl_prompt: a message, or none
          screen,   \* messages printed and done with
          caller,   \* where each client is
          printed,  \* messages printed so far
          due       \* messages printed before a client began to wait

userVars   == <<keys, struck, hungUp, ended>>
shownVars  == <<prompt, screen>>
clientVars == <<caller, printed, due>>
vars == <<userVars, thread, quit, input, output, holder, shownVars, clientVars>>

Idle == [at |-> "idle", call |-> "none"]

Started == thread # "none"
Shown == screen \o prompt

Init ==
  /\ keys = <<>> /\ struck = 0 /\ hungUp = FALSE /\ ended = FALSE
  /\ thread = "none" /\ quit = FALSE
  /\ input = <<>> /\ output = <<>> /\ holder = "nobody"
  /\ prompt = <<>> /\ screen = <<>>
  /\ caller = [c \in Clients |-> Idle]
  /\ printed = 0 /\ due = [c \in Clients |-> 0]
-----------------------------------------------------------------------------
\* The user and the terminal.
Strike(k) ==
  /\ struck < MaxKeys /\ ~ hungUp
  /\ keys' = Append(keys, k) /\ struck' = struck + 1
  /\ ended' = (ended \/ k = "end")
  /\ UNCHANGED <<hungUp, thread, quit, input, output, holder, shownVars, clientVars>>

HangUp ==
  /\ struck < MaxKeys /\ ~ hungUp
  /\ hungUp' = TRUE /\ ended' = TRUE /\ struck' = struck + 1
  /\ UNCHANGED <<keys, thread, quit, input, output, holder, shownVars, clientVars>>
-----------------------------------------------------------------------------
\* The thread.  Everything that can be read is read before anything is printed.
Loop ==
  /\ thread = "head"
  /\ thread' = IF quit THEN "gone" ELSE "reading"
  /\ UNCHANGED <<userVars, quit, input, output, holder, shownVars, clientVars>>

CanRead == keys # <<>> \/ hungUp

\* rl_callback_read_char() and lineRead().  Once a line is complete the prompt
\* stays where it is and another line begins.  A closed input is read again and
\* again; more than two ends of it are not told apart here.
ReadChar ==
  LET k == IF keys = <<>> THEN "end" ELSE Head(keys)
  IN  /\ thread = "reading" /\ CanRead
      /\ keys' = IF keys = <<>> THEN keys ELSE Tail(keys)
      /\ input' = IF k = "enter" \/ (keys = <<>> /\ Len(input) > MaxKeys)
                  THEN input ELSE Append(input, k)
      /\ quit' = (quit \/ k = "end")
      /\ screen' = Shown /\ prompt' = <<>>
      /\ UNCHANGED <<struck, hungUp, ended, thread, output, holder, clientVars>>

NothingToRead ==
  /\ thread = "reading" /\ ~ CanRead
  /\ thread' = "output"
  /\ UNCHANGED <<userVars, quit, input, output, holder, shownVars, clientVars>>

\* Mutant: the prompt is gone when messages are printed.
BeginOutputAfresh ==
  /\ thread = "output" /\ holder = "nobody"
  /\ IF output = <<>>
     THEN thread' = "head" /\ UNCHANGED <<holder, shownVars>>
     ELSE /\ thread' = "printing" /\ holder' = "thread"
          /\ prompt' = <<>> /\ UNCHANGED screen
  /\ UNCHANGED <<userVars, quit, input, output, clientVars>>

\* processOutput() begins by putting the prompt on the screen.
BeginOutput ==
  /\ thread = "output" /\ holder = "nobody"
  /\ IF output = <<>>
     THEN thread' = "head" /\ UNCHANGED <<holder, shownVars>>
     ELSE /\ thread' = "printing" /\ holder' = "thread"
          /\ screen' = Shown /\ prompt' = <<>>
  /\ UNCHANGED <<userVars, quit, input, output, clientVars>>

\* The last message becomes the prompt unless it ends with a newline.
PutMessage ==
  LET m == Head(output)
  IN  /\ thread = "printing" /\ output # <<>>
      /\ IF Len(output) = 1 /\ ~ m.newline
         THEN prompt' = <<m>> /\ UNCHANGED screen
         ELSE screen' = Append(screen, m) /\ UNCHANGED prompt
      /\ output' = Tail(output)
      /\ UNCHANGED <<userVars, thread, quit, input, holder, clientVars>>

\* Mutant: who is woken does not look again.
WokenForGood == [c \in Clients |->
  IF caller[c].at # "waiting" THEN caller[c]
  ELSE IF caller[c].call = "stop" THEN [caller[c] EXCEPT !.at = "quitting"]
  ELSE Idle]

Woken == [c \in Clients |-> IF caller[c].at = "waiting"
                            THEN [caller[c] EXCEPT !.at = "checking"] ELSE caller[c]]

\* Mutant: nobody is told.
EndOutputSilently ==
  /\ thread = "printing" /\ output = <<>>
  /\ thread' = "head" /\ holder' = "nobody"
  /\ UNCHANGED <<userVars, quit, input, output, shownVars, clientVars>>

EndOutput ==
  /\ thread = "printing" /\ output = <<>>
  /\ thread' = "head" /\ holder' = "nobody"
  /\ caller' = Woken
  /\ UNCHANGED <<userVars, quit, input, output, shownVars, due, printed>>
-----------------------------------------------------------------------------
\* The program.  Calls other than start() are made while the console is
\* started, and none begins while another client is in stop().
At(c, place) == caller' = [caller EXCEPT ![c].at = place]

MayCall(c) ==
  /\ Started /\ caller[c].at = "idle"
  /\ \A d \in Clients : caller[d].call # "stop"

Start(c) ==
  /\ ~ Started /\ caller[c].at = "idle"
  /\ thread' = "head" /\ quit' = FALSE
  /\ UNCHANGED <<userVars, input, output, holder, shownVars, clientVars>>

PrintMessage(c, newline) ==
  /\ MayCall(c) /\ printed < MaxPrints
  /\ holder = "nobody"
  /\ output' = Append(output, [n |-> printed + 1, newline |-> newline])
  /\ printed' = printed + 1
  /\ caller' = Woken
  /\ UNCHANGED <<userVars, thread, quit, input, holder, shownVars, due>>

\* waitUntilPrinted(), called by itself or by stop().
BeginWait(c, call) ==
  /\ MayCall(c)
  /\ caller' = [caller EXCEPT ![c] = [at |-> "checking", call |-> call]]
  /\ due' = [due EXCEPT ![c] = printed]
  /\ UNCHANGED <<userVars, thread, quit, input, output, holder, shownVars, printed>>

Returned(c) ==
  /\ IF caller[c].call = "stop" THEN At(c, "quitting")
     ELSE caller' = [caller EXCEPT ![c] = Idle]
  /\ due' = [due EXCEPT ![c] = 0]

\* Looks at the queue under the lock, and waits while there is something in it.
Check(c) ==
  /\ caller[c].at = "checking" /\ holder = "nobody"
  /\ IF output = <<>> THEN Returned(c) ELSE At(c, "waiting") /\ UNCHANGED due
  /\ UNCHANGED <<userVars, thread, quit, input, output, holder, shownVars, printed>>

Quit(c) ==
  /\ caller[c].at = "quitting"
  /\ quit' = TRUE
  /\ At(c, "joining")
  /\ UNCHANGED <<userVars, thread, input, output, holder, shownVars, due, printed>>

Join(c) ==
  /\ caller[c].at = "joining" /\ thread = "gone"
  /\ thread' = "none"
  /\ caller' = [caller EXCEPT ![c] = Idle]
  /\ UNCHANGED <<userVars, quit, input, output, holder, shownVars, due, printed>>

GetInput(c) ==
  /\ MayCall(c) /\ input # <<>>
  /\ input' = Tail(input)
  /\ UNCHANGED <<userVars, thread, quit, output, holder, shownVars, clientVars>>

ThreadStep ==
  \/ Loop
  \/ ReadChar
  \/ NothingToRead
  \/ BeginOutput
  \/ PutMessage
  \/ EndOutput

ClientStep(c) == Check(c) \/ Quit(c) \/ Join(c)

Next ==
  \/ \E k \in {"line", "enter", "end"} : Strike(k)
  \/ HangUp
  \/ ThreadStep
  \/ \E c \in Clients : Start(c)
  \/ \E c \in Clients, newline \in BOOLEAN : PrintMessage(c, newline)
  \/ \E c \in Clients, call \in {"wait", "stop"} : BeginWait(c, call)
  \/ \E c \in Clients : ClientStep(c)
  \/ \E c \in Clients : GetInput(c)

\* The system runs every thread that can run.
Fairness == WF_vars(ThreadStep) /\ \A c \in Clients : WF_vars(ClientStep(c))

Spec == Init /\ [][Next]_vars /\ Fairness
-----------------------------------------------------------------------------
\* What is on the screen, the prompt, and what is still in the queue are the
\* messages in the order of print(), each of them once: a prompt is not lost
\* when other messages follow it or a line is entered at it (processOutput).
MessagesInOrder ==
  /\ Len(Shown \o output) = printed
  /\ \A i \in 1..printed : (Shown \o output)[i].n = i

\* Who returns from waitUntilPrinted(), and who goes on to quit in stop(), has
\* everything on the screen that was printed before the call, whoever printed
\* it and whatever has woken the waiting thread.
WaitedForAll ==
  [][\A c \in Clients :
       (caller[c].at \in {"checking", "waiting"} /\ caller'[c].at \in {"idle", "quitting"})
         => Len(Shown) >= due[c]]_vars

\* As long as the input has not ended, stop() comes back, and so does every
\* thread that waits for its messages.
CallsReturn ==
  \A c \in Clients :
    caller[c].at # "idle" ~> (caller[c].at = "idle" \/ ended)
=============================================================================
