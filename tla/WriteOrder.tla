------------------------------ MODULE WriteOrder ------------------------------
(***************************************************************************)
(* What the Firestore client promises about the writes of its users, each  *)
(* to a document of their own: the server applies a user's writes in the   *)
(* order they were made, from the oldest one not yet answered for; a new   *)
(* connection begins with that one again, so a write may be applied twice, *)
(* but never once its answer has arrived.                                  *)
(***************************************************************************)
EXTENDS Integers

CONSTANTS Users,
          Refused       \* the writes <<user, n>> that the server's rules refuse

VARIABLES user,         \* whose writes are being sent
          written,      \* user -> the number of writes made
          settled,      \* user -> how many of them are answered for
          position,     \* the last write of user's that the server has dealt with here
          doc           \* user -> the last write applied to the document

vars == <<user, written, settled, position, doc>>

Init ==
    /\ user \in Users
    /\ written = [u \in Users |-> 0]
    /\ settled = [u \in Users |-> 0]
    /\ position = 0
    /\ doc = [u \in Users |-> 0]

Write(u) ==
    /\ written' = [written EXCEPT ![u] = @ + 1]
    /\ UNCHANGED <<user, settled, position, doc>>

\* The server applies the next write.
Apply ==
    /\ position < written[user]
    /\ <<user, position + 1>> \notin Refused
    /\ position' = position + 1
    /\ doc' = [doc EXCEPT ![user] = position + 1]
    /\ UNCHANGED <<user, written, settled>>

\* The client hears of it.
Confirm ==
    /\ settled[user] < position
    /\ settled' = [settled EXCEPT ![user] = @ + 1]
    /\ UNCHANGED <<user, written, position, doc>>

\* The next write is refused, which the client hears after all before it.
Refuse ==
    /\ settled[user] = position
    /\ position < written[user]
    /\ <<user, position + 1>> \in Refused
    /\ settled' = [settled EXCEPT ![user] = @ + 1]
    /\ position' = position + 1
    /\ UNCHANGED <<user, written, doc>>

\* A new connection, perhaps for another user.
Reconnect(u) ==
    /\ user' = u
    /\ position' = settled[u]
    /\ UNCHANGED <<written, settled, doc>>

Next ==
    \/ \E u \in Users : Write(u) \/ Reconnect(u)
    \/ Apply
    \/ Confirm
    \/ Refuse

Spec == Init /\ [][Next]_vars

----------------------------------------------------------------------------

\* What the server holds of a user's once all their writes are answered for.
LastAccepted(u, n) ==
    /\ n \in 0..written[u]
    /\ n # 0 => <<u, n>> \notin Refused
    /\ \A m \in (n + 1)..written[u] : <<u, m>> \in Refused

\* When every write of a user's is answered for, the document is as the last
\* write that was not refused left it.
LastWriteWins ==
    \A u \in Users : settled[u] = written[u] => LastAccepted(u, doc[u])
=============================================================================
