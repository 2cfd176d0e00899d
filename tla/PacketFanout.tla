----------------------------- MODULE PacketFanout -----------------------------
(***************************************************************************)
(* What the message router promises the modules behind it: reply packets   *)
(* are handed out one at a time in the order they arrived; a listener that *)
(* is registered from the moment a packet's turn comes sees it exactly     *)
(* once, whoever registers and deregisters meanwhile; nobody is called     *)
(* after it was deregistered; and a packet is deleted only when nobody     *)
(* is left to see it.                                                      *)
(***************************************************************************)
EXTENDS Naturals, Sequences

CONSTANTS Packets, Listeners

VARIABLES pending,      \* packets received and not deleted, oldest first
          delivering,   \* it is the turn of the oldest one
          owed,         \* listeners still to be called with it
          registered    \* the registered listeners

fanoutVars == <<pending, delivering, owed, registered>>

Init == /\ pending = <<>>
        /\ delivering = FALSE
        /\ owed = {}
        /\ registered = {}

Receive(p) == /\ \A i \in 1..Len(pending) : pending[i] # p
              /\ pending' = Append(pending, p)
              /\ UNCHANGED <<delivering, owed, registered>>

TakeTurn == /\ pending # <<>>
            /\ ~delivering
            /\ delivering' = TRUE
            /\ owed' = registered
            /\ UNCHANGED <<pending, registered>>

Deliver(l) == /\ l \in owed
              /\ owed' = owed \ {l}
              /\ UNCHANGED <<pending, delivering, registered>>

Delete == /\ delivering
          /\ owed = {}
          /\ pending' = Tail(pending)
          /\ delivering' = FALSE
          /\ UNCHANGED <<owed, registered>>

\* A listener that comes during a delivery may or may not be called with it.
Register(l) == /\ l \notin registered
               /\ registered' = registered \cup {l}
               /\ \/ owed' = owed
                  \/ delivering /\ owed' = owed \cup {l}
               /\ UNCHANGED <<pending, delivering>>

Deregister(l) == /\ registered' = registered \ {l}
                 /\ owed' = owed \ {l}
                 /\ UNCHANGED <<pending, delivering>>

Next == \/ \E p \in Packets : Receive(p)
        \/ \E l \in Listeners : Deliver(l) \/ Register(l) \/ Deregister(l)
        \/ TakeTurn
        \/ Delete

Spec == Init /\ [][Next]_fanoutVars
=============================================================================
