--------------------------- MODULE ConnLifecycle ---------------------------
(***************************************************************************)
(* What a reader of the tracker may rely on, whatever the handlers do: a   *)
(* connection is opened once, may start to relay, and ends once; its       *)
(* outcome fits how far it came; traffic belongs to a relaying connection  *)
(* and is final when the connection is over; the recent list shows the     *)
(* endings in the order they happened, without a gap.                      *)
(***************************************************************************)
EXTENDS Integers, Sequences

CONSTANTS Conn

VARIABLES stage, outcome, traffic, recent

lifeVars == <<stage, outcome, traffic, recent>>

Way == {"up", "down"}

Init ==
    /\ stage = [c \in Conn |-> "none"]
    /\ outcome = [c \in Conn |-> "none"]
    /\ traffic = [c \in Conn |-> [w \in Way |-> 0]]
    /\ recent = <<>>

Open(c) ==
    /\ stage[c] = "none"
    /\ stage' = [stage EXCEPT ![c] = "open"]
    /\ UNCHANGED <<outcome, traffic, recent>>

Relay(c) ==
    /\ stage[c] = "open"
    /\ stage' = [stage EXCEPT ![c] = "relaying"]
    /\ UNCHANGED <<outcome, traffic, recent>>

Count(c, w) ==
    /\ stage[c] = "relaying"
    /\ traffic' = [traffic EXCEPT ![c][w] = @ + 1]
    /\ UNCHANGED <<stage, outcome, recent>>

\* The outcomes a connection can have from each stage.
Possible(s) ==
    CASE s = "open" -> {"DENIED", "FAILED"}
      [] s = "relaying" -> {"CLOSED", "FAILED"}
      [] OTHER -> {}

\* Older entries may be forgotten, oldest first.
Remember(c) ==
    \E first \in 1 .. Len(recent) + 1 :
        recent' = Append(SubSeq(recent, first, Len(recent)), c)

End(c) ==
    /\ \E o \in Possible(stage[c]) : outcome' = [outcome EXCEPT ![c] = o]
    /\ stage' = [stage EXCEPT ![c] = "over"]
    /\ Remember(c)
    /\ UNCHANGED traffic

Forget ==
    /\ recent' = <<>>
    /\ UNCHANGED <<stage, outcome, traffic>>

Next ==
    \/ Forget
    \/ \E c \in Conn : Open(c) \/ Relay(c) \/ End(c)
    \/ \E c \in Conn, w \in Way : Count(c, w)

Spec == Init /\ [][Next]_lifeVars
=============================================================================
