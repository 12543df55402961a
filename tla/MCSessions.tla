----------------------------- MODULE MCSessions -----------------------------
(* Values for the constants of Sessions: one nickname, a name that no      *)
(* nickname may be, and the crowds.                                        *)
EXTENDS Promises, TLC

MCKeys == {"alice", "-bad"}
MCFold == [n \in Names |-> n]

UserCommands == {"NICK", "PONG", "USER"}
AllCommands == UserCommands \cup {"CAPAB", "IIRCN", "PASS", "QUIT", "SERVER", "SERVICE"}

(* Every peer registers as a user, by a listener that is for users only.   *)
UsersOnly == [listener |-> {"USER"}, commands |-> [c \in Conns |-> UserCommands]]

(* One peer sends every command there is, another registers as a user, and *)
(* a third does not come; the listener is for all kinds of peer.  Every    *)
(* connection takes every part, so that they may be permuted.              *)
OneSendsAll ==
  {[listener |-> Kinds,
    commands |-> [c \in Conns |-> IF c = p[1] THEN AllCommands
                                  ELSE IF c = p[2] THEN UserCommands ELSE {}]] :
     p \in {p \in Conns \X Conns : p[1] # p[2]}}

MCCrowds == {UsersOnly} \cup OneSendsAll
MCUsers == {UsersOnly}

ConnSymmetry == Permutations(Conns)
=============================================================================
