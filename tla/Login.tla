------------------------------- MODULE Login -------------------------------
(***************************************************************************)
(* How Dynamos log in: Iometer's login port, served by the state machine   *)
(* of CGalileoApp::OnIdle, and on the other side Manager::Login and the    *)
(* loop of Pulsar.cpp that logs in again after RESET.  Iometer answers on  *)
(* the login connection and then connects back to the port of the Dynamo,  *)
(* ManagerList::AddManager; only that connection stays.                    *)
(*                                                                         *)
(* The connection is a stream: the Message is unit 1, the Data_Message the *)
(* units 2 .. Units, and one receive may return fewer than it asked for.   *)
(***************************************************************************)
EXTENDS Naturals, Sequences, SequencesExt, FiniteSets

CONSTANTS
    Dynamos,        \* processes; one that is started again is another
    Incompatible,   \* the Dynamos of another version
    Units,          \* the parts of a whole login request
    Backlog,        \* connections the system keeps for the listening socket
    MaxRemovals,    \* bound on RESET and EXIT by the user
    MaxMishaps,     \* bound on deaths, late requests and unknown names
    None

VARIABLES
    login_state,    \* as in the code; "adding" is OnIdle inside Connect of AddManager,
                    \* "updating" inside UpdateTargetLists
    peer,           \* whose connection client_socket of login_port is
    backlog,        \* connections that are established and not accepted
    got,            \* what was received of the current message
    orphan,         \* units an abandoned Receive still waits for
    manager_list,
    pc,             \* of each Dynamo
    sent,           \* units it has sent on its login connection
    wire,           \* units on the way to Iometer
    reply,          \* what it will find on the login connection
    listening,      \* Dynamos that have called Accept on their own port
    linked,         \* Dynamos AddManager has connected to
    inbox,          \* the message that ends Run, if it was sent
    removals,
    mishaps

port == <<login_state, peer, backlog, got, orphan>>
dynamo == <<pc, sent, wire, reply, listening, linked, inbox>>
vars == <<port, manager_list, dynamo, removals, mishaps>>

LoginAssumption ==
    /\ IsFiniteSet(Dynamos) /\ Incompatible \subseteq Dynamos /\ None \notin Dynamos
    /\ Units \in Nat \ {0, 1} /\ Backlog \in Nat \ {0}
    /\ MaxRemovals \in Nat /\ MaxMishaps \in Nat
ASSUME LoginAssumption

Ends == {"ended", "dead"}

Init ==
    /\ login_state = "closed" /\ peer = None /\ backlog = <<>>
    /\ got = <<>> /\ orphan = 0
    /\ manager_list = <<>>
    /\ pc = [d \in Dynamos |-> "connecting"]
    /\ sent = [d \in Dynamos |-> 0]
    /\ wire = [d \in Dynamos |-> <<>>]
    /\ reply = [d \in Dynamos |-> "none"]
    /\ listening = {} /\ linked = {}
    /\ inbox = [d \in Dynamos |-> "none"]
    /\ removals = 0 /\ mishaps = {}

Mishap(what) ==
    /\ Cardinality(mishaps) < MaxMishaps
    /\ mishaps' = mishaps \cup {what}

-----------------------------------------------------------------------------
(* Iometer: one turn of OnIdle each.                                       *)

\* The reply is written before the socket is closed.  Closing one with unread
\* data resets the connection, so that a refusal may not reach its Dynamo.
Dropped(S) == [d \in Dynamos |-> IF d \in S /\ reply[d] = "none" THEN "lost" ELSE reply[d]]

OpenPort ==
    /\ login_state = "closed"
    /\ login_state' = "open"
    /\ UNCHANGED <<peer, backlog, got, orphan, manager_list, dynamo, removals, mishaps>>

Accept ==
    /\ login_state = "open"
    /\ login_state' = "accepting"
    /\ UNCHANGED <<peer, backlog, got, orphan, manager_list, dynamo, removals, mishaps>>

\* After a timeout IsAcceptComplete is still true of the connection before.
Accepted ==
    /\ login_state = "accepting"
    /\ \/ peer # None /\ UNCHANGED <<peer, backlog>>
       \/ /\ peer = None /\ backlog # <<>>
          /\ peer' = Head(backlog) /\ backlog' = Tail(backlog)
    /\ login_state' = "waiting"
    /\ UNCHANGED <<got, orphan, manager_list, dynamo, removals, mishaps>>

\* Peek finds data and the first Receive is posted.  A Receive that is still
\* pending comes first.
Receive ==
    /\ \/ login_state = "waiting" /\ login_state' = "receiving"
       \/ login_state = "waiting_for_data" /\ login_state' = "receiving_data"
    /\ orphan = 0 /\ wire[peer] # <<>>
    /\ got' = <<>>
    /\ UNCHANGED <<peer, backlog, orphan, manager_list, dynamo, removals, mishaps>>

Size == IF login_state = "receiving" THEN 1 ELSE Units - 1
\* login_msg_size, login_data_msg_size
Remaining == Size - Len(got)

\* Receives that complete; all units but the last may be short of the size.
Takes(more) ==
    \E k \in 1 .. Len(wire[peer]) :
        /\ k <= Remaining /\ more = (k < Remaining)
        /\ got' = got \o SubSeq(wire[peer], 1, k)
        /\ wire' = [wire EXCEPT ![peer] = SubSeq(@, k + 1, Len(@))]

Close ==
    /\ reply' = Dropped(Range(backlog) \cup {peer})
    /\ peer' = None /\ backlog' = <<>>
    /\ login_state' = "failed"

\* The check of the size that a Data_Message starts with is left out: it fails for
\* Dynamos with another layout of the structure only.
ReceiveMore ==
    /\ login_state \in {"receiving", "receiving_data"}
    /\ Takes(TRUE)
    /\ UNCHANGED <<login_state, peer, backlog, orphan, manager_list, pc, sent, reply, listening,
                   linked, inbox, removals, mishaps>>

\* A unit of a Data_Message where a Message was expected is no version.
Compatible == got'[1] = 1 /\ peer \notin Incompatible

MessageTaken ==
    /\ login_state = "receiving" /\ Takes(FALSE) /\ Compatible
    /\ login_state' = "waiting_for_data"
    /\ UNCHANGED <<peer, backlog, orphan, manager_list, pc, sent, reply, listening, linked, inbox,
                   removals, mishaps>>

Refuse ==
    /\ login_state = "receiving" /\ Takes(FALSE) /\ ~Compatible
    /\ \E answer \in {"wrong", "lost"} : reply' = [reply EXCEPT ![peer] = answer]
    /\ peer' = None
    /\ login_state' = "open"
    /\ UNCHANGED <<backlog, orphan, manager_list, pc, sent, listening, linked, inbox,
                   removals, mishaps>>

\* LOGIN_OK is sent first; AddManager then blocks the window in Connect.
DataTaken ==
    /\ login_state = "receiving_data" /\ Takes(FALSE)
    /\ reply' = [reply EXCEPT ![peer] = "ok"]
    /\ login_state' = "adding"
    /\ UNCHANGED <<peer, backlog, orphan, manager_list, pc, sent, listening, linked, inbox,
                   removals, mishaps>>

\* The other end has closed: a result of 0, after which nobody logs in any more.
ReceiveFails ==
    /\ login_state \in {"receiving", "receiving_data"}
    /\ wire[peer] = <<>> /\ pc[peer] \in Ends
    /\ Close
    /\ UNCHANGED <<got, orphan, manager_list, pc, sent, wire, listening, linked, inbox, removals,
                   mishaps>>

\* IOMETER_RECEIVE_TIMEOUT: the buffer is deleted, but the Receive is not cancelled.
TimeOut ==
    /\ login_state \in {"receiving", "receiving_data"}
    /\ wire[peer] = <<>>
    /\ Mishap("late")
    /\ login_state' = "accepting"
    /\ orphan' = Remaining
    /\ got' = <<>>
    /\ UNCHANGED <<peer, backlog, manager_list, dynamo, removals>>

\* It completes into memory nobody looks at.
Abandoned ==
    /\ orphan > 0 /\ peer # None /\ wire[peer] # <<>>
    /\ \E k \in 1 .. Len(wire[peer]) :
          /\ k <= orphan
          /\ wire' = [wire EXCEPT ![peer] = SubSeq(@, k + 1, Len(@))]
    /\ orphan' = 0
    /\ UNCHANGED <<login_state, peer, backlog, got, manager_list, pc, sent, reply, listening, linked,
                   inbox, removals, mishaps>>

\* Connect repeats until the Dynamo listens.
Connected ==
    /\ login_state = "adding" /\ peer \in listening
    /\ manager_list' = Append(manager_list, peer)
    /\ linked' = linked \cup {peer}
    /\ login_state' = "updating"
    /\ UNCHANGED <<peer, backlog, got, orphan, pc, sent, wire, reply, listening, inbox, removals,
                   mishaps>>

\* UpdateTargetLists and AddDefaultWorkers wait for answers (a dead Dynamo's port
\* returns errors); the login port is disconnected then.
Mutant_AddManager ==
    /\ login_state = "updating" /\ pc[peer] \in {"running", "dead"}
    /\ login_state' = "open"
    /\ UNCHANGED <<peer, backlog, got, orphan, manager_list, dynamo, removals, mishaps>>
AddManager ==
    /\ login_state = "updating" /\ pc[peer] \in {"running", "dead"}
    /\ peer' = None
    /\ login_state' = "open"
    /\ UNCHANGED <<backlog, got, orphan, manager_list, dynamo, removals, mishaps>>

\* The name the Dynamo sent means nothing here: AddManager returns NULL.
UnknownName ==
    /\ login_state = "adding"
    /\ Mishap("unknown")
    /\ Close
    /\ UNCHANGED <<got, orphan, manager_list, pc, sent, wire, listening, linked, inbox, removals>>

Idle == login_state \notin {"adding", "updating"}

\* The user removes one manager (EXIT) or resets Iometer (RESET for all of them).
RemoveManager ==
    /\ Idle /\ removals < MaxRemovals
    /\ \E i \in DOMAIN manager_list :
          /\ inbox' = [inbox EXCEPT ![manager_list[i]] = "EXIT"]
          /\ manager_list' = RemoveAt(manager_list, i)
    /\ removals' = removals + 1
    /\ UNCHANGED <<port, pc, sent, wire, reply, listening, linked, mishaps>>

Mutant_Reset ==
    /\ Idle /\ removals < MaxRemovals /\ manager_list # <<>>
    /\ inbox' = [d \in Dynamos |-> IF d \in Range(manager_list) THEN "RESET" ELSE inbox[d]]
    /\ manager_list' = Tail(manager_list)
    /\ removals' = removals + 1
    /\ UNCHANGED <<port, pc, sent, wire, reply, listening, linked, mishaps>>
Reset ==
    /\ Idle /\ removals < MaxRemovals /\ manager_list # <<>>
    /\ inbox' = [d \in Dynamos |-> IF d \in Range(manager_list) THEN "RESET" ELSE inbox[d]]
    /\ manager_list' = <<>>
    /\ removals' = removals + 1
    /\ UNCHANGED <<port, pc, sent, wire, reply, listening, linked, mishaps>>

-----------------------------------------------------------------------------
(* A Dynamo.                                                               *)

\* Connect: refused and tried again while nobody listens or the backlog is full.
Connect(d) ==
    /\ pc[d] = "connecting"
    /\ login_state \notin {"closed", "open", "failed"} /\ Len(backlog) < Backlog
    /\ backlog' = Append(backlog, d)
    /\ pc' = [pc EXCEPT ![d] = "sending"]
    /\ sent' = [sent EXCEPT ![d] = 0]
    /\ wire' = [wire EXCEPT ![d] = <<>>]
    /\ reply' = [reply EXCEPT ![d] = "none"]
    /\ UNCHANGED <<login_state, peer, got, orphan, manager_list, listening, linked, inbox, removals,
                   mishaps>>

\* The results of Send are ignored, so it goes on after the connection is closed.
Send(d) ==
    /\ pc[d] = "sending" /\ sent[d] < Units
    /\ sent' = [sent EXCEPT ![d] = @ + 1]
    /\ wire' = IF reply[d] = "none" THEN [wire EXCEPT ![d] = Append(@, sent[d] + 1)] ELSE wire
    /\ UNCHANGED <<port, manager_list, pc, reply, listening, linked, inbox, removals, mishaps>>

\* LOGIN_OK and Accept, or the end of the program.
Reply(d) ==
    /\ pc[d] = "sending" /\ sent[d] = Units /\ reply[d] # "none"
    /\ IF reply[d] = "ok"
       THEN /\ pc' = [pc EXCEPT ![d] = "accepting"]
            /\ listening' = listening \cup {d}
       ELSE /\ pc' = [pc EXCEPT ![d] = "ended"]
            /\ listening' = listening \ {d}
    /\ UNCHANGED <<port, manager_list, sent, wire, reply, linked, inbox, removals, mishaps>>

LoggedIn(d) ==
    /\ pc[d] = "accepting" /\ d \in linked
    /\ pc' = [pc EXCEPT ![d] = "running"]
    /\ UNCHANGED <<port, manager_list, sent, wire, reply, listening, linked, inbox, removals, mishaps>>

\* Run: RESET leads back to Login with the port still listening, EXIT ends.
Run(d) ==
    /\ pc[d] = "running" /\ inbox[d] # "none"
    /\ IF inbox[d] = "RESET"
       THEN /\ pc' = [pc EXCEPT ![d] = "connecting"]
            /\ UNCHANGED listening
       ELSE /\ pc' = [pc EXCEPT ![d] = "ended"]
            /\ listening' = listening \ {d}
    /\ linked' = linked \ {d}
    /\ inbox' = [inbox EXCEPT ![d] = "none"]
    /\ UNCHANGED <<port, manager_list, sent, wire, reply, removals, mishaps>>

\* What it has sent still arrives.
Die(d) ==
    /\ pc[d] \notin Ends
    /\ Mishap("death")
    /\ pc' = [pc EXCEPT ![d] = "dead"]
    /\ listening' = listening \ {d} /\ linked' = linked \ {d}
    /\ inbox' = [inbox EXCEPT ![d] = "none"]
    /\ UNCHANGED <<port, manager_list, sent, wire, reply, removals>>

OnIdle == \/ OpenPort \/ Accept \/ Accepted \/ Receive \/ ReceiveMore \/ MessageTaken \/ Refuse
          \/ DataTaken \/ ReceiveFails \/ Connected \/ AddManager
Dynamo(d) == Connect(d) \/ Send(d) \/ Reply(d) \/ LoggedIn(d) \/ Run(d)
Next == \/ OnIdle \/ TimeOut \/ Abandoned \/ UnknownName \/ RemoveManager \/ Reset
        \/ \E d \in Dynamos : Dynamo(d) \/ Die(d)

\* IDLE_TIMER calls OnIdle when nothing else does; a Dynamo's process is scheduled.
Spec == Init /\ [][Next]_vars /\ WF_vars(OnIdle) /\ \A d \in Dynamos : WF_vars(Dynamo(d))
-----------------------------------------------------------------------------
(* Properties.                                                             *)

TypeOK ==
    /\ login_state \in {"closed", "open", "accepting", "waiting", "receiving", "waiting_for_data",
                        "receiving_data", "adding", "updating", "failed"}
    /\ peer \in Dynamos \cup {None}
    /\ peer = None => login_state \in {"closed", "open", "accepting", "failed"}
    /\ backlog \in Seq(Dynamos) /\ Len(backlog) <= Backlog
    /\ got \in Seq(1 .. Units) /\ Len(got) < Units /\ orphan \in 0 .. Units
    /\ manager_list \in Seq(Dynamos)
    /\ pc \in [Dynamos -> {"connecting", "sending", "accepting", "running"} \cup Ends]
    /\ sent \in [Dynamos -> 0 .. Units] /\ wire \in [Dynamos -> Seq(1 .. Units)]
    /\ reply \in [Dynamos -> {"none", "ok", "wrong", "lost"}]
    /\ listening \subseteq Dynamos /\ linked \subseteq Dynamos
    /\ inbox \in [Dynamos -> {"none", "EXIT", "RESET"}]

\* Iometer's list and the processes agree, whatever dies, comes late or is reset in
\* between: nobody is listed twice, a Dynamo that runs and was not told to leave is
\* listed, and who is listed is of this version and runs or is about to, or has died.
\* Unless a request was late a Dynamo is refused only for its version, as it then tells
\* its user ("Incorrect version of Dynamo for this Iometer").
ListIsTrue ==
    /\ IsInjective(manager_list)
    /\ \A d \in Dynamos : pc[d] = "running" /\ inbox[d] = "none" => d \in Range(manager_list)
    /\ \A d \in Range(manager_list) :
          /\ d \notin Incompatible /\ inbox[d] = "none"
          /\ pc[d] # "dead" => d \in linked /\ pc[d] \in {"sending", "accepting", "running"}
    /\ "late" \notin mishaps => \A d \in Dynamos : reply[d] = "wrong" => d \in Incompatible

\* Every Dynamo that asks is soon listed and running, or ends if its version is
\* wrong, however the connections of others overlap with its own, if nothing fails.
EveryoneServed ==
    \A d \in Dynamos :
        pc[d] = "connecting" ~>
            \/ mishaps # {}
            \/ IF d \in Incompatible THEN pc[d] = "ended"
               ELSE pc[d] = "running" /\ d \in Range(manager_list)
=============================================================================
