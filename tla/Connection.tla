----------------------------- MODULE Connection -----------------------------
(***************************************************************************)
(* The connection to the game: checkConnection() of DirectConnection.pm,   *)
(* which polls the state, the socket and the timeouts in every pass of the *)
(* main loop; the receiving of pieces through the tokenizer; the handlers  *)
(* of messages that change the state; the servers, which say what they     *)
(* like and hang up when they like; and the user, who may ask for another  *)
(* login or stay away.                                                     *)
(*                                                                         *)
(* An expired timeout is a choice of the pass that looks at it, but for    *)
(* timeout_ex{master}, the pause before the account server is called.      *)
(***************************************************************************)
EXTENDS MessageTokenizer, SequencesExt

CONSTANTS HandlerOf,    \* the handler of each switch in packet_list
          Says,         \* the messages of each kind of server
          ManyBlocks,   \* the length of a list of characters with three blocks
          Configs,      \* settings: dcOnDisconnect, dcOnMaxReconnections
          MaxBytes,     \* bound: bytes under way or not read
          MaxGreeted,   \* the same with the account's number
          MaxStale      \* and where nothing is promised

ASSUME ConnectionAssumption ==
    /\ DOMAIN Says = {"account", "char", "map"}
    /\ \A server \in DOMAIN Says : Says[server] \subseteq Seq(0..255)
    /\ Configs \subseteq [dcOnDisconnect : Nat, dcOnMaxReconnections : Nat]

(* What a server says is as long as the tables or its length field say;    *)
(* and no message is, or begins with, the account's number or a part of    *)
(* it: the number stands alone.                                            *)
ASSUME MessagesAssumption ==
    \A server \in DOMAIN Says : \A m \in Says[server] :
        /\ Len(m) >= 2 /\ MessageLength(m) = Len(m)
        /\ \E i \in 1..4 : i <= Len(m) /\ m[i] # AccountID[i]

VARIABLES conn,         \* the state of the connection, see ConnInit
          config,       \* the settings; never change
          step,         \* where the main loop is: "check", "receive", "process"
          due,          \* history: messages sent on this connection and not handled
          clean         \* history: nothing old was in the buffer when it was made

connVars == <<buffer, mightBe, conn, config, step, due, clean>>

\* The states of Network.pm, and 1.5, times ten.
NOT_CONNECTED == 10
SPECIAL == 15
CONNECTED_TO_MASTER_SERVER == 20
CONNECTED_TO_LOGIN_SERVER == 30
CONNECTED_TO_CHAR_SERVER == 40
IN_GAME == 50

ConnInit ==
    /\ config \in Configs
    /\ \E option, server, char \in BOOLEAN :
         conn = [state |-> NOT_CONNECTED,
                 tries |-> FALSE,        \* conState_tries is not zero
                 link |-> "none",        \* the server at the other end
                 hungUp |-> FALSE,       \* it has closed; not noticed yet
                 wire |-> << >>,         \* bytes sent and not received
                 pause |-> FALSE,        \* timeout_ex{master} is running
                 rested |-> TRUE,        \* history: it was started since the last call
                 reconnectCount |-> 0,
                 no_connect |-> option,
                 server |-> server,      \* config{server} or charServer_ip is set
                 char |-> char,          \* config{char} is set
                 quit |-> FALSE]
    /\ buffer = << >> /\ mightBe = FALSE
    /\ step = "check" /\ due = << >> /\ clean = TRUE

-----------------------------------------------------------------------------
(* What connections, handlers and commands do to conn.                     *)

Alive(c) == c.link # "none"                                   \* serverAlive()
Disconnected(c) == [c EXCEPT !.link = "none", !.hungUp = FALSE, !.wire = << >>]
InState(s, c) == [c EXCEPT !.state = s]
Untried(c) == [c EXCEPT !.tries = FALSE]
Paused(c) == [c EXCEPT !.pause = TRUE, !.rested = TRUE]
Quit(c) == [c EXCEPT !.quit = TRUE]                           \* $quit, or it dies

RelogAtOnce(c) == InState(NOT_CONNECTED, Untried(Disconnected(c)))

\* Back to the beginning, after a pause.
Relogged(c) == InState(NOT_CONNECTED, Untried(Paused(Disconnected(c))))

\* offlineMode()
StaysAway(c) == [Untried(InState(NOT_CONNECTED, Disconnected(c))) EXCEPT !.no_connect = TRUE]

-----------------------------------------------------------------------------
(* The handlers, as the sets of what they may make of conn.                *)

\* Who has not named a server chooses one or quits; some servers are refused.
account_server_info(c) ==
    LET d == Untried(InState(CONNECTED_TO_MASTER_SERVER, Disconnected(c)))
    IN {[d EXCEPT !.server = TRUE], Quit(d)}

\* Some errors end the program, by the settings or by the user's choice; a
\* wrong name or password, typed again, is tried at once.
login_error(c, type) ==
    LET d == Disconnected(c) IN
    CASE type \in {0, 1} -> {d, Quit(d), [Untried(d) EXCEPT !.pause = FALSE, !.rested = TRUE]}
      [] type = 4 -> {Quit(d)}
      [] type \in {5, 105} -> {Relogged(d)}
      [] OTHER -> {d}

login_error_game_login_server(c) == {Relogged(c)}

\* A character is taken from the settings or chosen; or one is created or
\* deleted, which chooses none; or the user gives up; or it starts again.
charSelectScreen(c) == {c, [c EXCEPT !.char = TRUE], Quit(c), Relogged(c)}

received_characters(c, m) ==
    LET d == Untried(InState(CONNECTED_TO_LOGIN_SERVER, c)) IN
    CASE c.state = IN_GAME -> {c}
      [] c.state # IN_GAME /\ Switch(m) = <<157, 9>> /\ Len(m) >= ManyBlocks -> {InState(SPECIAL, d)}
      [] OTHER -> charSelectScreen(d)

received_character_ID_and_Map(c) == {Untried(InState(CONNECTED_TO_CHAR_SERVER, Disconnected(c)))}

map_loaded(c) == {Untried(InState(IN_GAME, c))}

map_changed(c) == {Untried(InState(CONNECTED_TO_CHAR_SERVER, Disconnected(c)))}

switch_character(c) == {InState(CONNECTED_TO_MASTER_SERVER, Disconnected(c))}

\* Whether types 0 to 2 end the program is a setting for each.
errors(c, type) ==
    LET leaves == c.state = IN_GAME /\
                  (config.dcOnDisconnect > 1 \/ (config.dcOnDisconnect = 1 /\ type \notin {3, 10}))
        again == IF type = 0 THEN InState(NOT_CONNECTED, Untried(Paused(c))) ELSE Relogged(c)
    IN (IF leaves THEN {} ELSE {again}) \cup (IF leaves \/ type \in {0, 1, 2} THEN {Quit(again)} ELSE {})

Handled(c, m) ==
    LET handler == IF Len(m) >= 2 /\ Switch(m) \in DOMAIN HandlerOf THEN HandlerOf[Switch(m)] ELSE "none"
        type == IF Len(m) >= 3 THEN m[3] ELSE 0
    IN CASE handler = "account_server_info" -> account_server_info(c)
         [] handler = "login_error" -> login_error(c, type)
         [] handler = "login_error_game_login_server" -> login_error_game_login_server(c)
         [] handler = "received_characters" -> received_characters(c, m)
         [] handler = "received_character_ID_and_Map" -> received_character_ID_and_Map(c)
         [] handler = "map_loaded" -> map_loaded(c)
         [] handler = "map_changed" -> map_changed(c)
         [] handler = "switch_character" -> switch_character(c)
         [] handler = "errors" -> errors(c, type)
         [] OTHER -> {c}

-----------------------------------------------------------------------------
(* checkConnection(): the branches of one pass.  Each call of a server may *)
(* fail; the tries are counted all the same.                               *)

\* There is nobody to call: no server is named, or no character chosen.
Unchosen == \/ conn.state = CONNECTED_TO_MASTER_SERVER /\ ~conn.server
            \/ conn.state = CONNECTED_TO_LOGIN_SERVER /\ ~conn.char

MustCall ==
    /\ conn.state \in {NOT_CONNECTED, CONNECTED_TO_MASTER_SERVER,
                       CONNECTED_TO_LOGIN_SERVER, CONNECTED_TO_CHAR_SERVER}
    /\ ~Alive(conn) /\ ~conn.tries
    /\ conn.state = NOT_CONNECTED => ~conn.pause
    /\ ~Unchosen
Lost == conn.state \in {SPECIAL, IN_GAME} /\ ~Alive(conn)

\* There may be no parser for this kind of server, and after the call the
\* program may refuse to run.  dcOnMaxReconnections compares the count, so
\* that it need not go further.
AccountServerCalled ==
    LET tried == [conn EXCEPT !.tries = TRUE]
        Call(server) ==
            [tried EXCEPT !.link = server, !.rested = FALSE,
                !.reconnectCount = IF @ < config.dcOnMaxReconnections THEN @ + 1 ELSE @]
    IN  {Quit(tried), Call("account"), Call("none"), Quit(Call("none"))}

CallUncleared ==
    /\ conn.state = NOT_CONNECTED /\ MustCall
    /\ conn' \in AccountServerCalled
    /\ due' = << >> /\ clean' = TRUE
    /\ UNCHANGED <<buffer, mightBe>>

CallAccountServer ==
    /\ conn.state = NOT_CONNECTED /\ MustCall
    /\ conn' \in AccountServerCalled
    /\ buffer' = << >> /\ due' = << >> /\ clean' = TRUE
    /\ UNCHANGED mightBe

\* serverConnect() marks the next message; the server may greet with the account.
CallServer ==
    /\ conn.state # NOT_CONNECTED /\ MustCall
    /\ LET server == IF conn.state = CONNECTED_TO_CHAR_SERVER THEN "map" ELSE "char"
           c == IF server = "map" THEN Paused(conn) ELSE conn
       IN \/ conn' = [c EXCEPT !.tries = TRUE] /\ due' = << >>
          \/ \E hello \in {<< >>, AccountID} :
               /\ conn' = [c EXCEPT !.tries = TRUE, !.link = server, !.wire = hello,
                     !.reconnectCount = IF conn.state = CONNECTED_TO_MASTER_SERVER THEN 0 ELSE @]
               /\ due' = IF hello = << >> THEN << >> ELSE <<hello>>
    /\ mightBe' = TRUE /\ clean' = (buffer = << >>)
    /\ UNCHANGED buffer

\* The server named is not in the list: the user chooses another or quits,
\* and nobody is called in this pass.
NoSuchServer ==
    /\ conn.state = CONNECTED_TO_MASTER_SERVER /\ MustCall
    /\ conn' \in {conn, Quit([conn EXCEPT !.tries = TRUE])}

MayTimeOut == ~conn.no_connect /\ ~MustCall /\ ~Lost

TimeoutForgetsTries ==
    /\ conn.state = NOT_CONNECTED /\ ~conn.pause
    /\ conn' = Disconnected(Paused(conn))

AccountTimeout ==
    /\ conn.state = NOT_CONNECTED /\ ~conn.pause
    /\ conn' = IF config.dcOnMaxReconnections \in 1..conn.reconnectCount THEN Quit(conn)
               ELSE Untried(Disconnected(Paused(conn)))

ServerTimeout ==
    \/ /\ conn.state \in {CONNECTED_TO_MASTER_SERVER, CONNECTED_TO_LOGIN_SERVER}
       /\ ~Unchosen
       /\ conn' = Relogged(conn)
    \/ /\ conn.state = CONNECTED_TO_CHAR_SERVER
       /\ conn' = InState(NOT_CONNECTED, Untried(Disconnected(conn)))

GameTimeout ==
    /\ conn.state = IN_GAME
    /\ conn' = IF config.dcOnDisconnect # 0 THEN Quit(conn) ELSE Relogged(conn)

LoseSpecial ==
    /\ conn.state = SPECIAL
    /\ conn' = [Untried(InState(NOT_CONNECTED, conn)) EXCEPT !.rested = TRUE]

LoseGame ==
    /\ conn.state = IN_GAME
    /\ conn' = IF config.dcOnDisconnect # 0 THEN Quit(conn) ELSE Relogged(conn)

tokenVars == <<buffer, mightBe, due, clean>>

CheckStep == step = "check" /\ ~conn.quit /\ step' = "receive" /\ UNCHANGED config
Calls == CheckStep /\ ~conn.no_connect /\ (CallAccountServer \/ CallServer)
Answers == CheckStep /\ ~conn.no_connect /\ NoSuchServer /\ UNCHANGED tokenVars
Loses == CheckStep /\ ~conn.no_connect /\ Lost /\ (LoseSpecial \/ LoseGame) /\ UNCHANGED tokenVars
TimesOut ==
    /\ CheckStep /\ MayTimeOut /\ UNCHANGED tokenVars
    /\ AccountTimeout \/ ServerTimeout \/ GameTimeout
Waits == CheckStep /\ (conn.no_connect \/ MayTimeOut) /\ UNCHANGED <<conn, tokenVars>>

-----------------------------------------------------------------------------
(* The rest of a pass: serverRecv(), process(), and what else runs there.  *)

\* Some of the bytes under way have arrived; or the end is noticed.
Receive ==
    /\ step = "receive"
    /\ \/ \E n \in 1..Len(conn.wire) :
            /\ conn' = [conn EXCEPT !.wire = SubSeq(@, n + 1, Len(@))]
            /\ buffer' = buffer \o SubSeq(conn.wire, 1, n)
            /\ step' = "process"
       \/ /\ conn.wire = << >> /\ conn.hungUp
          /\ conn' = Disconnected(conn)
          /\ step' = "check" /\ UNCHANGED buffer
       \/ /\ conn.wire # << >> \/ ~conn.hungUp
          /\ step' = "check" /\ UNCHANGED <<conn, buffer>>
    /\ UNCHANGED <<config, mightBe, due, clean>>

\* One message of process(), or the end of its loop.  Nothing is promised of
\* what follows a message whose length nobody knows.
Process ==
    /\ step = "process"
    /\ LET read == ReadNext IN
       /\ buffer' = read.buffer /\ mightBe' = read.mark
       /\ IF read.message = << >>
            THEN step' = "check" /\ UNCHANGED <<conn, due, clean>>
            ELSE /\ conn' \in IF read.type = "known" THEN Handled(conn, read.message) ELSE {conn}
                 /\ due' = IF due = << >> THEN due ELSE Tail(due)
                 /\ clean' = (clean /\ due # << >> /\ (Known(Head(due)) \/ Head(due) = AccountID))
                 /\ UNCHANGED step
    /\ UNCHANGED config

\* relog(), by the user, a task or the AI, and autoRestart; connect; conf and
\* charselect, which may name or forget the server and the character.
Relog == ~conn.no_connect /\ conn' = Relogged(conn)
Offline == conn' = StaysAway(conn)
Connect == conn.no_connect /\ conn' = [conn EXCEPT !.no_connect = FALSE, !.rested = TRUE]
Configure == \E server, char \in BOOLEAN : conn' = [conn EXCEPT !.server = server, !.char = char]
Command ==
    /\ step = "check" /\ ~conn.quit
    /\ Relog \/ Offline \/ Connect \/ Configure
    /\ UNCHANGED <<config, step, tokenVars>>

PauseEnds == conn.pause /\ ~conn.quit /\ conn' = [conn EXCEPT !.pause = FALSE] /\ UNCHANGED <<config, step, tokenVars>>

-----------------------------------------------------------------------------
(* The servers and the network.                                            *)

Room ==
    CASE ~clean -> MaxStale
      [] clean /\ due # << >> /\ Head(due) = AccountID -> MaxGreeted
      [] OTHER -> MaxBytes

Speaks ==
    /\ Alive(conn) /\ ~conn.hungUp /\ ~conn.quit
    /\ \E m \in Says[conn.link] :
         /\ Len(buffer) + Len(conn.wire) + Len(m) <= Room
         /\ conn' = [conn EXCEPT !.wire = @ \o m]
         /\ due' = IF clean THEN Append(due, m) ELSE due
    /\ UNCHANGED <<config, step, buffer, mightBe, clean>>

\* The server goes, or the network, which may lose the end of what was sent.
HangsUp ==
    /\ Alive(conn) /\ ~conn.hungUp /\ ~conn.quit
    /\ \E n \in 0..Len(conn.wire) : conn' = [conn EXCEPT !.hungUp = TRUE, !.wire = SubSeq(@, 1, n)]
    /\ UNCHANGED <<config, step, tokenVars>>

-----------------------------------------------------------------------------
ConnNext == Calls \/ Answers \/ Loses \/ TimesOut \/ Waits \/ Receive \/ Process \/ Command \/ PauseEnds \/ Speaks \/ HangsUp

\* The main loop goes on; timeouts, polled in every pass, run out.
ConnFairness ==
    /\ WF_connVars(Calls \/ Answers \/ Loses \/ TimesOut \/ Waits \/ Receive \/ Process)
    /\ WF_connVars(PauseEnds) /\ SF_connVars(TimesOut)

ConnSpec == ConnInit /\ [][ConnNext]_connVars /\ ConnFairness

Connections ==
    [state : {NOT_CONNECTED, SPECIAL, CONNECTED_TO_MASTER_SERVER,
              CONNECTED_TO_LOGIN_SERVER, CONNECTED_TO_CHAR_SERVER, IN_GAME},
     tries : BOOLEAN, link : {"none"} \cup DOMAIN Says, hungUp : BOOLEAN, wire : Seq(0..255),
     pause : BOOLEAN, rested : BOOLEAN, reconnectCount : Nat, no_connect : BOOLEAN,
     server : BOOLEAN, char : BOOLEAN, quit : BOOLEAN]

ConnTypeOK ==
    /\ conn \in Connections /\ config \in Configs
    /\ step \in {"check", "receive", "process"}
    /\ buffer \in Seq(0..255) /\ {mightBe, clean} \subseteq BOOLEAN

(* Whatever the pieces, messages are cut where the server ended them, each *)
(* once: what is in the buffer and on its way is the beginning of what the *)
(* server has said and no handler has seen, and after a pass no whole      *)
(* message is left in the buffer, but for one of three bytes that might be *)
(* the beginning of an account ID.  Promised of connections that found     *)
(* nothing old in the buffer, until a message of unknown length comes (the *)
(* type invariant, which the rest needs, is part of it).                   *)
MessagesAreWhole ==
    /\ ConnTypeOK
    /\ clean =>
        /\ IsPrefix(buffer \o conn.wire, FlattenSeq(due))
        /\ step = "check" /\ due # << >> /\ Len(buffer) >= Len(Head(due)) => mightBe /\ Len(buffer) < 4

(* The account server is not called again without a pause in between,      *)
(* however the last login failed and whatever the servers answer to it,    *)
(* unless the user has typed a new password or "connect", or a connection  *)
(* was lost in state 1.5.                                                  *)
SparesAccountServer == [][CallAccountServer => conn.rested]_connVars

\* A server says something; a server is called.
Said == Len(conn.wire) < Len(conn'.wire)
Called == ~conn.tries /\ conn'.tries

(* A client that is left alone tries again: where no server and no user    *)
(* says anything anymore, a call follows the other for ever, unless the    *)
(* client has quit, is to stay away, waits in state 1.5, or has no         *)
(* character chosen where one must be, or no server named: then it neither *)
(* calls nor times out (DirectConnection.pm:504-569).                      *)
TriesAgain ==
    \/ []<><<Said \/ Command \/ Answers>>_connVars
    \/ []<><<Called>>_connVars
    \/ <>[](conn.quit \/ conn.no_connect \/ (conn.state = SPECIAL /\ Alive(conn)) \/ Unchosen)
=============================================================================
