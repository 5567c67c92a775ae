------------------------------- MODULE Channel -------------------------------
(***************************************************************************)
(* What one miner thread may expect of another thread's queue: a first-in  *)
(* first-out channel that can be closed against new messages.  It says     *)
(* nothing of condition variables, wake-ups or waiting.                    *)
(***************************************************************************)
EXTENDS Naturals, Sequences

CONSTANT Message

VARIABLES sent,     \* every message the channel ever took, in order
          received, \* every message that came out of it, in order
          open      \* FALSE: messages are refused

vars == <<sent, received, open>>

Init == /\ sent = << >>
        /\ received = << >>
        /\ open = TRUE

Send(m) == /\ open
           /\ sent' = Append(sent, m)
           /\ UNCHANGED <<received, open>>

\* The oldest message still inside comes out.
Receive == /\ Len(received) < Len(sent)
           /\ received' = Append(received, sent[Len(received) + 1])
           /\ UNCHANGED <<sent, open>>

SetOpen(b) == /\ open' = b
              /\ UNCHANGED <<sent, received>>

Next == \/ \E m \in Message : Send(m)
        \/ Receive
        \/ \E b \in BOOLEAN : SetOpen(b)

Spec == Init /\ [][Next]_vars
=============================================================================
