--------------------------- MODULE WriteOrder_proofs ---------------------------
(***************************************************************************)
(* What the order of the writes is good for: LastWriteWins, for any users, *)
(* any writes refused and any number of reconnections.                     *)
(***************************************************************************)
EXTENDS WriteOrder, TLAPS

\* The writes of u from the one after d to n are refused.
RefusedBetween(u, d, n) == \A m \in (d + 1)..n : <<u, m>> \in Refused

Typed ==
    /\ user \in Users
    /\ written \in [Users -> Nat]
    /\ settled \in [Users -> Nat]
    /\ position \in Nat
    /\ doc \in [Users -> Nat]

\* The answers come after the writes, and the server is between the two.
Between ==
    /\ \A u \in Users : settled[u] <= written[u]
    /\ settled[user] <= position /\ position <= written[user]

\* A document holds a write that was made and not refused, and only refused ones
\* follow it up to the last answer, or to where the server is.  It may be ahead of both: a new
\* connection goes back.
DocsSound ==
    /\ \A u \in Users :
          /\ doc[u] <= written[u]
          /\ doc[u] # 0 => <<u, doc[u]>> \notin Refused
          /\ RefusedBetween(u, doc[u], settled[u])
    /\ RefusedBetween(user, doc[user], position)

OrderInv == Typed /\ Between /\ DocsSound

\* Nothing is written, answered or refused yet.
LEMMA InitOrder == Init => OrderInv
  BY DEF Init, OrderInv, Typed, Between, DocsSound, RefusedBetween

\* A step of a user, of the server or of the connection keeps the invariant.
LEMMA NextOrder == OrderInv /\ [Next]_vars => OrderInv'
<1> SUFFICES ASSUME OrderInv, [Next]_vars PROVE OrderInv'
  OBVIOUS
<1> USE DEF OrderInv, Typed, Between, DocsSound, RefusedBetween
<1>1. ASSUME NEW u \in Users, Write(u) PROVE OrderInv'
  BY <1>1 DEF Write
<1>2. CASE Apply
  BY <1>2 DEF Apply
<1>3. CASE Confirm
  BY <1>3 DEF Confirm
<1>4. CASE Refuse
  <2>1. <<user, position + 1>> \in Refused /\ position' = position + 1
    BY <1>4 DEF Refuse
  <2>2. settled' = [settled EXCEPT ![user] = position + 1]
    BY <1>4 DEF Refuse
  <2>3. \A m \in (doc[user] + 1)..(position + 1) : <<user, m>> \in Refused
    BY <2>1
  <2> QED
    BY <1>4, <2>1, <2>2, <2>3 DEF Refuse
<1>5. ASSUME NEW u \in Users, Reconnect(u) PROVE OrderInv'
  <2>1. /\ user' = u /\ position' = settled[u]
        /\ written' = written /\ settled' = settled /\ doc' = doc
    BY <1>5 DEF Reconnect
  <2>2. Typed' /\ Between'
    BY <2>1
  <2>3. RefusedBetween(u, doc[u], settled[u])
    OBVIOUS
  <2>4. DocsSound'
    BY <2>1, <2>3
  <2> QED
    BY <2>2, <2>4
<1>6. CASE UNCHANGED vars
  BY <1>6 DEF vars
<1> QED
  BY <1>1, <1>2, <1>3, <1>4, <1>5, <1>6 DEF Next

\* In every state the invariant holds.
THEOREM OrderTheorem == Spec => []OrderInv
  BY InitOrder, NextOrder, PTL DEF Spec

\* When all writes of a user are answered for, the server holds the last one that
\* was not refused, however often connections broke and writes went out again.
THEOREM LastWriteTheorem == Spec => []LastWriteWins
<1>1. OrderInv => LastWriteWins
  BY DEF OrderInv, Typed, DocsSound, RefusedBetween, LastWriteWins, LastAccepted
<1> QED
  BY <1>1, OrderTheorem, PTL
=============================================================================
