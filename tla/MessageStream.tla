--------------------------- MODULE MessageStream ---------------------------
(* What a client may take for granted of an answer that is streamed to it:   *)
(* the event grammar in the head of scripts/anthropic_proxy.py.  A message   *)
(* starts once; its blocks are numbered from nought, one is open at a time,  *)
(* and what is said in it is of its kind; the reason comes after the last    *)
(* block and the end after the reason.  Nothing promises that a message is   *)
(* ever finished: the line may break anywhere.                               *)
EXTENDS Naturals, Sequences, SequencesExt, FiniteSets
CONSTANT Agents
VARIABLE heard

Kinds == {"thinking", "text", "tool_use"}
Reasons == {"end_turn", "tool_use"}
Events(h, e) == Cardinality({i \in DOMAIN h : h[i].event = e})
Between(h) == h # <<>> /\ Last(h).event \in {"message_start", "content_block_stop"}
Inside(h) == h # <<>> /\ Last(h).event \in {"content_block_start", "content_block_delta"}

Say(a, e, i, k) == heard' = [heard EXCEPT ![a] = Append(@, [event |-> e, index |-> i, kind |-> k])]

Init == heard = [a \in Agents |-> <<>>]

NextMessage(a) == heard' = [heard EXCEPT ![a] = <<>>]
MessageStart(a) == heard[a] = <<>> /\ Say(a, "message_start", 0, "none")
BlockStart(a) ==
  /\ Between(heard[a])
  /\ \E k \in Kinds : Say(a, "content_block_start", Events(heard[a], "content_block_start"), k)
BlockDelta(a) ==
  Inside(heard[a]) /\ Say(a, "content_block_delta", Last(heard[a]).index, Last(heard[a]).kind)
BlockStop(a) ==
  Inside(heard[a]) /\ Say(a, "content_block_stop", Last(heard[a]).index, Last(heard[a]).kind)
MessageDelta(a) == Between(heard[a]) /\ \E r \in Reasons : Say(a, "message_delta", 0, r)
MessageStop(a) ==
  heard[a] # <<>> /\ Last(heard[a]).event = "message_delta" /\ Say(a, "message_stop", 0, "none")

Next == \E a \in Agents : \/ NextMessage(a)
                          \/ MessageStart(a)
                          \/ BlockStart(a)
                          \/ BlockDelta(a)
                          \/ BlockStop(a)
                          \/ MessageDelta(a)
                          \/ MessageStop(a)
Spec == Init /\ [][Next]_heard
=============================================================================
