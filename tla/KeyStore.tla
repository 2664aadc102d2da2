------------------------------- MODULE KeyStore -------------------------------
(***************************************************************************)
(* What the environment-variable routes of an application promise: each    *)
(* request to add or remove keys takes effect once, at one moment, on the  *)
(* content there is at that moment, or not at all.  ApiApps implements it  *)
(* with a read, a merge and a replacement guarded by resourceVersion.      *)
(***************************************************************************)
CONSTANTS Stores, Requests, Keys

VARIABLES
    content,   \* per store, the keys in it
    request    \* per request, what it asks and whether it is over

keyVars == <<content, request>>

NoRequest == [op |-> "none", store |-> "none", keys |-> {}, over |-> FALSE]
NewRequests == [op : {"add", "remove"}, store : Stores, keys : SUBSET Keys, over : {FALSE}]

Init == /\ content = [s \in Stores |-> {}]
        /\ request = [q \in Requests |-> NoRequest]

Ask(q) ==
    /\ request[q] = NoRequest /\ content' = content
    /\ request'[q] \in NewRequests /\ request' = [request EXCEPT ![q] = request'[q]]

Pending(q) == request[q].op # "none" /\ ~request[q].over
Ends(q)    == Pending(q) /\ request' = [request EXCEPT ![q].over = TRUE]

Apply(q) ==
    LET r == request[q] IN
    /\ Ends(q)
    /\ content' = [content EXCEPT ![r.store] = IF r.op = "add" THEN @ \cup r.keys ELSE @ \ r.keys]

\* Refused, or failed.
Drop(q) == Ends(q) /\ content' = content

Next == \E q \in Requests : Ask(q) \/ Apply(q) \/ Drop(q)

Spec == Init /\ [][Next]_keyVars
===============================================================================
