---------------------------- MODULE AnswerStream ----------------------------
(***************************************************************************)
(* What a provider promises the coordinator about a request                *)
(* (coordinator/api/provider.go handles each kind of message, and          *)
(* coordinator/api/consumer.go waits for them): either an error and        *)
(* nothing else, or an acceptance, then chunks, then one last message, a   *)
(* completion or an error, and silence after it.  A stream that completes  *)
(* has sent its [DONE] chunk, and sends no chunk after that.               *)
(***************************************************************************)
EXTENDS Sequences

CONSTANT Requests

VARIABLE said    \* messages of each request, in the order they arrive

Init == said = [r \in Requests |-> <<>>]

Last(r) == said[r][Len(said[r])]
Speak(r, kind) == said' = [said EXCEPT ![r] = Append(@, kind)]

Refuse(r) == said[r] = <<>> /\ Speak(r, "error")
Accept(r) == said[r] = <<>> /\ Speak(r, "accepted")
Chunk(r) == said[r] # <<>> /\ Last(r) \in {"accepted", "chunk"} /\ Speak(r, "chunk")
Done(r) == said[r] # <<>> /\ Last(r) \in {"accepted", "chunk"} /\ Speak(r, "done")
Complete(r) == said[r] # <<>> /\ Last(r) \in {"chunk", "done"} /\ Speak(r, "complete")
Fail(r) == said[r] # <<>> /\ Last(r) \in {"accepted", "chunk", "done"} /\ Speak(r, "error")

Next == \E r \in Requests : Refuse(r) \/ Accept(r) \/ Chunk(r) \/ Done(r) \/ Complete(r) \/ Fail(r)

Spec == Init /\ [][Next]_said

=============================================================================
