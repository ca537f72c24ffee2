--------------------------- MODULE DebugTransport ---------------------------
(***************************************************************************)
(* What the simulated debug transport promises OpenOCD: requests are       *)
(* performed on the debug module one after the other in the order they     *)
(* were sent, each once, and answered once in that order.  A request that  *)
(* is not served is dropped in its turn, with no effect and no answer.     *)
(***************************************************************************)
EXTENDS Sequences

CONSTANTS Sendable,         \* the requests
          Served(_),        \* those that are performed and answered
          Effect(_, _),     \* the state of the module after a request
          Answer(_, _),     \* the answer to a request in a state
          InitModule, None

VARIABLES module,     \* the debug module and the address selected in it
          requests,   \* sent, not performed
          current,    \* the answer of a request performed, not answered
          responses   \* answered, not taken

vars == <<module, requests, current, responses>>

Init ==
    /\ module = InitModule
    /\ requests = << >>
    /\ current = None
    /\ responses = << >>

Send(r) ==
    /\ requests' = Append(requests, r)
    /\ UNCHANGED <<module, current, responses>>

\* The next request is one to serve, and the last one is done with.
Ready == requests # << >> /\ Served(Head(requests)) /\ current = None

Perform ==
    /\ Ready
    /\ module' = Effect(module, Head(requests))
    /\ current' = Answer(module, Head(requests))
    /\ requests' = Tail(requests)
    /\ UNCHANGED responses

Reply ==
    /\ current # None
    /\ responses' = Append(responses, current)
    /\ current' = None
    /\ UNCHANGED <<module, requests>>

\* A request that needs no access to the module is answered at once.
Execute ==
    /\ Ready
    /\ module' = Effect(module, Head(requests))
    /\ responses' = Append(responses, Answer(module, Head(requests)))
    /\ requests' = Tail(requests)
    /\ UNCHANGED current

Drop ==
    /\ requests # << >>
    /\ ~Served(Head(requests))
    /\ requests' = Tail(requests)
    /\ UNCHANGED <<module, current, responses>>

Take ==
    /\ responses # << >>
    /\ responses' = Tail(responses)
    /\ UNCHANGED <<module, requests, current>>

Next ==
    \/ Perform \/ Reply \/ Execute \/ Drop \/ Take
    \/ \E r \in Sendable : Send(r)

Spec == Init /\ [][Next]_vars
=============================================================================
