----------------------------- MODULE MCSession -----------------------------
(* Instances of Session for TLC: definitions of two menus and one key. *)
EXTENDS Session, TLC

CONSTANTS m1, m2, k1, r1

Silent == [f \in Fn |-> Nothing]
Does(kind) == [kind |-> kind]
GoesTo(f) == [kind |-> "fn", to |-> f]
Fetches(f) == [kind |-> "genericjson", to |-> f]
Keys(a, b) == (m1 :> (k1 :> a)) @@ (m2 :> (k1 :> b))

\* A read-out that advances to a menu with a script on entry, and a menu that
\* does not exist.
Scripts ==
  [entry |-> m1, hangs |-> {}, clears |-> {}, end |-> Nothing,
   keys |-> Keys(Fetches(m2), GoesTo(None)), auto |-> [Silent EXCEPT ![m2] = Does("script")]]

\* A queue that ends in a menu, from a menu that hangs up when it is returned to.
Queues ==
  [entry |-> m1, hangs |-> {m1}, clears |-> {}, end |-> GoesTo(m2),
   keys |-> Keys(Does("queue"), Does("hangup")), auto |-> Silent]

\* A menu that goes on to another on entry, which makes a request on entry,
\* clears the stack, and has a service that collects two digits.
Services ==
  [entry |-> m1, hangs |-> {}, clears |-> {m2}, end |-> Nothing,
   keys |-> Keys(Does("play"), [kind |-> "srv", input |-> 2]),
   auto |-> [Silent EXCEPT ![m1] = GoesTo(m2), ![m2] = Fetches(None)]]

AllDefinitions == {Scripts, Queues, Services}
=============================================================================
