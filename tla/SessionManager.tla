--------------------------- MODULE SessionManager ---------------------------
(***************************************************************************)
(* The operations of class SessionManager (source/server/SessionManager)   *)
(* on its map from user handle to Session.  Each of them runs under        *)
(* sessionMutex, so the modules that use them call them in one step.       *)
(*                                                                         *)
(* A map `ss' takes every user to the vector Session::sockets.  A user     *)
(* without an entry and a user whose Session has no socket behave the same *)
(* in every operation, so both are the empty sequence.                     *)
(***************************************************************************)
EXTENDS Naturals, Sequences, SequencesExt

MAX_SESSIONS_PER_USER == 2

\* StartSession returns nullptr when this is false.
SessionAvailable(ss, user) == Len(ss[user]) < MAX_SESSIONS_PER_USER

\* Seeded fault: the handle is stored where the sender's address belongs.
StartSessionStoresHandle(ss, user, sender) ==
    IF SessionAvailable(ss, user)
    THEN [ss EXCEPT ![user] = Append(@, user)]
    ELSE ss

StartSession(ss, user, sender) ==
    IF SessionAvailable(ss, user)
    THEN [ss EXCEPT ![user] = Append(@, sender)]
    ELSE ss

\* The first socket equal to the sender's is erased, if there is one.
EndSession(ss, user, sender) ==
    [ss EXCEPT ![user] = RemoveFirst(@, sender)]

\* The users GetUserNameByAddressAndIP may find for an address.
UsersAt(ss, address) == {u \in DOMAIN ss : Contains(ss[u], address)}

=============================================================================
