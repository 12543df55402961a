------------------------------ MODULE Promises ------------------------------
(***************************************************************************)
(* What comments, headers and assertions of the source say about sessions  *)
(* and their users, and the code does not keep.  Each is checked by a run  *)
(* of its own that is expected to end in a counterexample.                 *)
(***************************************************************************)
EXTENDS Sessions

(* include/kineircd/libirc2/output.h:103, "Send an error message and       *)
(* disconnect": no user or server comes out of a session that was sent an  *)
(* ERROR, but for one that has quit.  It does: the rest of the chunk is    *)
(* parsed, and may complete the registration.                              *)
ErrorDisconnects ==
  \A c \in Conns :
    phase[c] \in {"user", "link"} /\ registrar[c].errorSent => c \in left

(* include/kineircd/entity.h:191, a registered entity is "considered to be *)
(* connected to the network, or online": no entry points to a user whose   *)
(* connection is deleted.  A connection that is closed without QUIT leaves *)
(* its entry behind.                                                       *)
ListedUsersAreOnline == \A k \in Registered : phase[users[k]] # "gone"

(* include/kineircd/client.h:182, quit() returns UNREGISTERED_ENTITY for a *)
(* client that "isn't registered".  For one whose namesake is registered it*)
(* deregisters the namesake and returns NO_ERROR.                          *)
QuitNeedsRegistration ==
  \A c \in Conns :
    phase[c] = "user" /\ (\A k \in Keys : users[k] # c) =>
      quitError(c) = "UNREGISTERED_ENTITY"
=============================================================================
