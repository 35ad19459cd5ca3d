------------------------------ MODULE NetPair ------------------------------
(***************************************************************************)
(* A pair of network workers in a test: the grunt of the server and the    *)
(* grunt of its client, each with one TCP target (TargetTCP, NetAsyncTCP)  *)
(* and one connection at a time.  They exchange nothing but the data of    *)
(* the test.  Each decides alone, from random numbers of the same seed,    *)
(* what the next transaction is and when the connection ends, so that all  *)
(* of this depends on both deciding the same.  Closing a socket discards   *)
(* what is under way (SO_LINGER of 0), so the receiver has to close first. *)
(*                                                                         *)
(* Of a transfer only its number of units and the transaction it belongs   *)
(* to are kept.  What GruntIO says about one grunt (start times, results,  *)
(* delays) is left out.                                                    *)
(***************************************************************************)
EXTENDS Naturals, Sequences, SequencesExt

CONSTANTS
    Configs,    \* the targets and access specifications that are tried
    Room        \* units the sockets buffer in one direction

Side == {"server", "client"}
Other(s) == IF s = "server" THEN "client" ELSE "server"

VARIABLES
    config,
    grunt_state,    \* of each side; "idle" is TestIdle
    pc,
    available,      \* available_trans_queue, from head to tail
    trans,          \* trans_slots
    line, burst,    \* locals of Do_IOs: the current access line, transactions left in burst
    drawn,          \* how many numbers Grunt::Rand has returned (cyclic)
    target_drawn,   \* the same of Target::Rand
    started,        \* transactions started
    trans_left, is_closing, lastIO,     \* of the target
    listening,      \* the server has called listen
    backlog,        \* the connection the server has not accepted
    socket,         \* client_socket of each side; "reset" by the other end
    requests,       \* outstanding, for each side and direction, in the order of their calls
    wire            \* units sent by each side and not received

control == <<grunt_state, pc>>
draws == <<line, burst, drawn, target_drawn, started>>
conn == <<trans_left, is_closing>>
net == <<listening, backlog, socket>>
vars == <<config, control, available, trans, draws, conn, lastIO, net, requests, wire>>

\* lines and reads are what the random numbers lead to: the access line of each burst and
\* the direction of each transaction.  Transactions are numbered modulo numbers.
ConfigType(c) ==
    /\ c.platform \in {"windows", "posix"}
    /\ c.depth \in Nat \ {0} /\ c.numbers \in Nat \ {0}
    /\ c.rate \in BOOLEAN /\ c.trans_per_conn \in Nat
    /\ \A i \in DOMAIN c.lines :
          c.lines[i].size \in Nat \ {0} /\ c.lines[i].reply \in Nat /\ c.lines[i].burst \in Nat
    /\ \A i \in DOMAIN c.reads : c.reads[i] \in BOOLEAN
    /\ c.pattern \in {"repeating", "pseudo", "full"}
    /\ c.data_size \in [Side -> Nat]
ASSUME NetAssumption == /\ Room \in Nat \ {0}
                        /\ \A c \in Configs : ConfigType(c)

Slot == 1 .. config.depth
At(seq, n) == seq[(n % Len(seq)) + 1]
Advance(f, s, seq) == [f EXCEPT ![s] = (@ + 1) % Len(seq)]

\* The access line a random number leads to, and the direction.
GetNextBurst(s) == At(config.lines, drawn[s])
ReadFirst(s) == At(config.reads, target_drawn[s])

\* Start_Test: a pseudo random pattern takes a number for every byte of the buffer.
DrawnForPattern(s) == IF config.pattern = "pseudo" THEN config.data_size[s] % Len(config.lines) ELSE 0

Init ==
    /\ config \in Configs
    /\ grunt_state = [s \in Side |-> "busy"] /\ pc = [s \in Side |-> "open"]
    /\ available = [s \in Side |-> [i \in Slot |-> i]]
    /\ trans = [s \in Side |-> [i \in Slot |->
                  [requests |-> 0, replies |-> 0, is_read |-> FALSE, line |-> config.lines[1],
                   number |-> config.numbers]]]
    /\ line = [s \in Side |-> config.lines[1]] /\ burst = [s \in Side |-> 0]
    /\ drawn = [s \in Side |-> DrawnForPattern(s)]
    /\ target_drawn = [s \in Side |-> 0] /\ started = [s \in Side |-> 0]
    /\ trans_left = [s \in Side |-> 0] /\ is_closing = [s \in Side |-> FALSE]
    /\ lastIO = [s \in Side |-> IF s = "server" THEN "READ" ELSE "WRITE"]
    /\ listening = FALSE /\ backlog = "none" /\ socket = [s \in Side |-> "none"]
    /\ requests = [s \in Side |-> [d \in {"receive", "send"} |-> <<>>]]
    /\ wire = [s \in Side |-> <<>>]

Goto(s, place) == pc' = [pc EXCEPT ![s] = place]
Running(s) == grunt_state[s] # "idle"
Outstanding(s) == Len(requests[s]["receive"]) + Len(requests[s]["send"])

-----------------------------------------------------------------------------
(* Opening and closing the connection.                                     *)

Opened(s) ==
    IF pc[s] = "open" THEN Goto(s, IF config.rate THEN "close_opened" ELSE "loop")
    ELSE Goto(s, IF is_closing[s] THEN "loop" ELSE "take")

Listen ==
    /\ pc["server"] \in {"open", "reopen"} /\ ~listening
    /\ listening' = TRUE
    /\ UNCHANGED <<config, control, available, trans, draws, conn, lastIO, backlog, socket, requests,
                   wire>>

Accept ==
    /\ pc["server"] \in {"open", "reopen"} /\ backlog # "none"
    /\ socket' = [socket EXCEPT !["server"] = backlog]
    /\ backlog' = "none"
    /\ Opened("server")
    /\ UNCHANGED <<config, grunt_state, available, trans, draws, conn, lastIO, listening, requests,
                   wire>>

\* Connected as soon as the system has room for it in the server's backlog.
ConnectSocket ==
    /\ pc["client"] \in {"open", "reopen"} /\ listening /\ backlog = "none"
    /\ socket' = [socket EXCEPT !["client"] = "up"]
    /\ backlog' = "up"
    /\ Opened("client")
    /\ UNCHANGED <<config, grunt_state, available, trans, draws, conn, lastIO, listening, requests,
                   wire>>

\* TestIdle ends the attempts.  Do_IOs does not look at the result of Open.
GiveUp(s) ==
    /\ pc[s] \in {"open", "reopen"} /\ ~Running(s)
    /\ IF s = "server" THEN listening /\ backlog = "none" ELSE ~listening \/ backlog # "none"
    /\ IF pc[s] = "open" THEN Goto(s, "final") ELSE Opened(s)
    /\ UNCHANGED <<config, grunt_state, available, trans, draws, conn, lastIO, net, requests, wire>>

\* WaitForDisconnect returns when there is something to read, be it the end, or when
\* there is no connection; with TestIdle it is called once.
Mutant_Disconnects(s) == socket[s] # "up" \/ wire[Other(s)] # <<>>
Disconnects(s) ==
    \/ ~Running(s) \/ socket[s] # "up" \/ wire[Other(s)] # <<>>

Mutant_MayClose(s) == lastIO[s] = "READ" => Disconnects(s)
Mutant_BothWait(s) == Disconnects(s)
MayClose(s) == lastIO[s] = "WRITE" => Disconnects(s)

\* An abortive close: what is under way in either direction is lost.
CloseSocket(s) ==
    /\ socket' = [x \in Side |->
           IF x = s THEN "none"
           ELSE IF socket[s] = "up" /\ socket[x] = "up" /\ ~(x = "server" /\ backlog # "none")
                THEN "reset" ELSE socket[x]]
    /\ backlog' = IF s = "client" /\ socket[s] = "up" /\ backlog = "up" THEN "reset" ELSE backlog
    /\ wire' = IF socket[s] = "up" THEN [x \in Side |-> <<>>] ELSE wire

Close(s) ==
    /\ pc[s] \in {"close_opened", "close", "final"}
    /\ MayClose(s)
    /\ CloseSocket(s)
    /\ is_closing' = IF pc[s] = "close" THEN [is_closing EXCEPT ![s] = FALSE] ELSE is_closing
    /\ Goto(s, IF pc[s] = "final" THEN "ended" ELSE "loop")
    /\ UNCHANGED <<config, grunt_state, available, trans, draws, trans_left, lastIO, listening,
                   requests>>

-----------------------------------------------------------------------------
(* The system: units leave the first unfinished request in a direction.    *)

FirstOpen(s, d) == SelectInSeq(requests[s][d], LAMBDA r : r.left > 0)

Moved(s, d, i) == requests' = [requests EXCEPT ![s][d][i] = [@ EXCEPT !.left = @ - 1, !.some = TRUE]]

Transmit(s) ==
    LET i == FirstOpen(s, "send") IN
    /\ i # 0 /\ socket[s] = "up" /\ Len(wire[s]) < Room
    /\ Moved(s, "send", i)
    /\ wire' = [wire EXCEPT ![s] = Append(@, requests[s]["send"][i].part)]
    /\ UNCHANGED <<config, control, available, trans, draws, conn, lastIO, net>>

Deliver(s) ==
    LET i == FirstOpen(s, "receive") IN
    /\ i # 0 /\ socket[s] = "up" /\ wire[Other(s)] # <<>>
    /\ s = "server" => backlog = "none"
    /\ Moved(s, "receive", i)
    /\ wire' = [wire EXCEPT ![Other(s)] = Tail(@)]
    /\ UNCHANGED <<config, control, available, trans, draws, conn, lastIO, net>>

-----------------------------------------------------------------------------
(* The thread: completions.                                                *)

\* A client receives what it writes: for it, the calls are reversed.
Direction(s, is_read) == IF is_read = (s = "server") THEN "receive" ELSE "send"
Used(d) == IF d = "receive" THEN "READ" ELSE "WRITE"

\* Without a connection Windows refuses a request at once, POSIX aio later.
Refused(s) == config.platform = "windows" /\ socket[s] # "up"

\* Record_IO: after the last request the replies go the other way.
Record_IO(s, d, i) ==
    LET slot == requests[s][d][i].slot IN
    /\ requests' = [requests EXCEPT ![s][d] = RemoveAt(@, i)]
    /\ trans' = [trans EXCEPT ![s][slot] =
           IF @.requests > 0 THEN [@ EXCEPT !.requests = 0, !.is_read = ~@]
                             ELSE [@ EXCEPT !.replies = @ - 1]]
    /\ available' = [available EXCEPT ![s] = Append(@, slot)]
    /\ UNCHANGED lastIO

\* Do_Partial_IO: the rest is requested anew, behind what was requested meanwhile.  If it
\* is refused nobody will record the transfer.
Again(s, d, i) ==
    /\ requests' = IF Refused(s)
                   THEN [requests EXCEPT ![s][d][i].lost = TRUE]
                   ELSE [requests EXCEPT ![s][d] =
                            Append(RemoveAt(@, i), [@[i] EXCEPT !.some = FALSE])]
    /\ lastIO' = [lastIO EXCEPT ![s] = Used(d)]
    /\ UNCHANGED <<available, trans>>

\* A request that failed is recorded as an error.  With POSIX aio its -1 bytes pass for
\* a partial transfer, and so do the 0 bytes the next attempt returns.
Complete_IO(s) ==
    \E d \in {"receive", "send"} : \E i \in DOMAIN requests[s][d] :
        LET r == requests[s][d][i] IN
        /\ ~r.lost
        /\ \/ r.left = 0 /\ Record_IO(s, d, i)
           \/ r.left > 0 /\ d = "receive" /\ r.some /\ Again(s, d, i)
           \/ /\ r.left > 0 /\ (d = "send" \/ ~r.some) /\ socket[s] # "up"
              /\ IF config.platform = "windows" THEN Record_IO(s, d, i) ELSE Again(s, d, i)

\* A poll that finds nothing waits when no slot is available.
Poll(s) ==
    /\ pc[s] = "loop" /\ Running(s)
    /\ \/ Complete_IO(s)
       \/ available[s] # <<>> /\ UNCHANGED <<requests, trans, available, lastIO>>
    /\ Goto(s, IF available'[s] = <<>> THEN "loop" ELSE "pick")
    /\ UNCHANGED <<config, grunt_state, draws, conn, net, wire>>

Leave(s) ==
    /\ pc[s] = "loop" /\ ~Running(s)
    /\ Goto(s, "drain")
    /\ UNCHANGED <<config, grunt_state, available, trans, draws, conn, lastIO, net, requests, wire>>

Drain(s) ==
    /\ pc[s] = "drain"
    /\ IF Outstanding(s) = 0
       THEN Goto(s, "final") /\ UNCHANGED <<requests, trans, available, lastIO>>
       ELSE Complete_IO(s) /\ UNCHANGED pc
    /\ UNCHANGED <<config, grunt_state, draws, conn, net, wire>>

-----------------------------------------------------------------------------
(* The thread: the next transfer.                                          *)

Rotate(q) == Append(Tail(q), Head(q))

\* Nothing more is transferred on a closing connection, not even a reply.
PickClosing(s) ==
    /\ pc[s] = "pick" /\ is_closing[s]
    /\ available' = [available EXCEPT ![s] = Rotate(@)]
    /\ Goto(s, IF Outstanding(s) = 0 THEN "close" ELSE "loop")
    /\ UNCHANGED <<config, grunt_state, trans, draws, conn, lastIO, net, requests, wire>>

Pick(s) ==
    /\ pc[s] = "pick" /\ ~is_closing[s]
    /\ IF config.rate /\ trans_left[s] = 0
       THEN /\ trans_left' = [trans_left EXCEPT ![s] = config.trans_per_conn]
            /\ is_closing' = [is_closing EXCEPT ![s] = config.trans_per_conn = 0]
            /\ Goto(s, "reopen")
       ELSE Goto(s, "take") /\ UNCHANGED conn
    /\ UNCHANGED <<config, grunt_state, available, trans, draws, lastIO, net, requests, wire>>

Idle(s) == LET t == trans[s][Head(available[s])] IN t.requests = 0 /\ t.replies = 0

\* A new transaction; at the end of a burst it takes the next line.
StartTransaction(s) ==
    /\ pc[s] = "take" /\ Idle(s)
    /\ LET next == burst[s] <= 1
           l == IF next THEN GetNextBurst(s) ELSE line[s]
       IN /\ line' = [line EXCEPT ![s] = l]
          /\ burst' = [burst EXCEPT ![s] = IF next THEN l.burst ELSE @ - 1]
          /\ drawn' = IF next THEN Advance(drawn, s, config.lines) ELSE drawn
          /\ trans' = [trans EXCEPT ![s][Head(available[s])] =
                 [requests |-> 1, replies |-> IF l.reply > 0 THEN 1 ELSE 0, line |-> l,
                  is_read |-> ReadFirst(s), number |-> started[s]]]
    /\ target_drawn' = Advance(target_drawn, s, config.reads)
    /\ started' = [started EXCEPT ![s] = (@ + 1) % config.numbers]
    /\ IF config.rate
       THEN /\ trans_left' = [trans_left EXCEPT ![s] = @ - 1]
            /\ is_closing' = [is_closing EXCEPT ![s] = trans_left[s] = 1]
       ELSE UNCHANGED conn
    /\ Goto(s, "transfer")
    /\ UNCHANGED <<config, grunt_state, available, lastIO, net, requests, wire>>

Continue(s) ==
    /\ pc[s] = "take" /\ ~Idle(s)
    /\ Goto(s, "transfer")
    /\ UNCHANGED <<config, grunt_state, available, trans, draws, conn, lastIO, net, requests, wire>>

\* A fully random pattern takes another number for each write, on the side that receives
\* it as well.
Mutant_DrawsForData(s, t) == config.pattern = "full" /\ Direction(s, t.is_read) = "send"
DrawsForData(s, t) == config.pattern = "full" /\ ~t.is_read

\* The request at the head of the ring gets its data and is handed to the socket; one that
\* is refused goes to the back.
Transfer(s) ==
    /\ pc[s] = "transfer"
    /\ LET i == Head(available[s])
           t == trans[s][i]
           d == Direction(s, t.is_read)
           first == t.requests > 0
       IN /\ drawn' = IF DrawsForData(s, t) THEN Advance(drawn, s, config.lines) ELSE drawn
          /\ lastIO' = [lastIO EXCEPT ![s] = Used(d)]
          /\ IF Refused(s)
             THEN /\ available' = [available EXCEPT ![s] = Rotate(@)]
                  /\ UNCHANGED requests
             ELSE /\ available' = [available EXCEPT ![s] = Tail(@)]
                  /\ requests' = [requests EXCEPT ![s][d] =
                         Append(@, [slot |-> i, part |-> <<t.number, first>>, some |-> FALSE, lost |-> FALSE,
                                    left |-> IF first THEN t.line.size ELSE t.line.reply])]
    /\ Goto(s, "loop")
    /\ UNCHANGED <<config, grunt_state, trans, line, burst, target_drawn, started, conn, net, wire>>

\* The managers stop their grunts one after the other.
Stop_Test(s) ==
    /\ Running(s)
    /\ grunt_state' = [grunt_state EXCEPT ![s] = "idle"]
    /\ UNCHANGED <<config, pc, available, trans, draws, conn, lastIO, net, requests, wire>>

Opens(s) == IF s = "server" THEN Listen \/ Accept ELSE ConnectSocket
Thread(s) == \/ Opens(s) \/ GiveUp(s) \/ Close(s) \/ Poll(s) \/ Leave(s) \/ Drain(s)
             \/ PickClosing(s) \/ Pick(s) \/ StartTransaction(s) \/ Continue(s) \/ Transfer(s)
Completes(s) == Complete_IO(s) /\ (Poll(s) \/ Drain(s))
System(s) == Transmit(s) \/ Deliver(s)
Next == \E s \in Side : Thread(s) \/ System(s) \/ Stop_Test(s)

\* The threads run, the network delivers, and a poll does not miss for ever what has
\* completed.  Nobody has to stop the test.
Spec == /\ Init /\ [][Next]_vars
        /\ \A s \in Side : /\ WF_vars(Thread(s)) /\ SF_vars(Completes(s))
                           /\ WF_vars(Transmit(s)) /\ WF_vars(Deliver(s))
-----------------------------------------------------------------------------
(* Properties.                                                             *)

FirstIsRead(t) == IF t.requests > 0 THEN t.is_read ELSE ~t.is_read

SameTransaction(t, u) ==
    t.number = u.number /\ t.number # config.numbers =>
        t.line = u.line /\ FirstIsRead(t) = FirstIsRead(u)

ArrivesInOrder(s) ==
    LET i == FirstOpen(s, "receive") IN
    i # 0 /\ wire[Other(s)] # <<>> /\ socket[s] = "up" /\ (s = "server" => backlog = "none")
        => Head(wire[Other(s)]) = requests[s]["receive"][i].part

NobodyStopped == \A s \in Side : Running(s)

\* Grunts "will use the same seed to produce the same sequence of random numbers. This
\* will keep them in synch": over any number of bursts and connections both sides mean the
\* same by a transaction.  With one outstanding transfer, what arrives next is what the side
\* waits for (with more, the rest of a partial one is requested behind the next).
InSynch ==
    NobodyStopped =>
        /\ \A i, j \in Slot : SameTransaction(trans["server"][i], trans["client"][j])
        /\ config.depth = 1 => \A s \in Side : ArrivesInOrder(s)

\* As long as no grunt was stopped no connection ends under an unfinished transfer: the
\* side that receives last closes first, on both sides the same one.
NothingLost ==
    NobodyStopped =>
        \A s \in Side : socket[s] # "up" => FirstOpen(s, "send") = 0 /\ FirstOpen(s, "receive") = 0

\* The two sides never wait for each other: unless one is stopped, a grunt always gets to
\* another transfer, or to another connection if those are to be empty.
Flows ==
    \A s \in Side :
        NobodyStopped ~>
            \/ pc[s] = IF config.rate /\ config.trans_per_conn = 0 THEN "reopen" ELSE "transfer"
            \/ ~NobodyStopped

\* The client has connected, but the server was stopped while it waited for that and will
\* not accept.
Abandoned(s) == s = "client" /\ backlog = "up" /\ pc["server"] = "ended"

\* The connection ended between the two parts of a transfer.
Lost(s) == \E d \in {"receive", "send"} : \E i \in DOMAIN requests[s][d] : requests[s][d][i].lost

\* On Windows a grunt that is stopped ends, whatever the partner does at that time, but for
\* these two cases.
StopEnds ==
    \A s \in Side :
        ~Running(s) ~> pc[s] = "ended" \/ Abandoned(s) \/ Lost(s) \/ config.platform # "windows"
=============================================================================
