----------------------------- MODULE MCSession ------------------------------
(***************************************************************************)
(* Session for TLC.  Every order of subscribe, publish, filter and write   *)
(* is tried on one socket alone, and every order of resumes, panics and    *)
(* teardowns on two sockets that nothing is sent to but their welcome: the *)
(* run leaves out steps that nothing obliges anyone to take.               *)
(***************************************************************************)
EXTENDS Session, TLC

Connected == {s \in Socket : phase[s] # "idle"}

Alone == Connected \subseteq {1}

Quiet == log = << >> /\ \A s \in Socket : subs[s] = {} /\ DirectsOf(s) = 0

(* Sockets and client ids are interchangeable: the first socket is 1, and  *)
(* its client is 1.                                                        *)
InTurn == client[1] \in {NoClient, 1} /\ (2 \in Connected => 1 \in Connected)

MCNext == Next /\ InTurn' /\ (Alone' \/ Quiet')

MCSpec == Init /\ [][MCNext]_vars /\ Fairness
=============================================================================
