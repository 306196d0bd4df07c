------------------------------ MODULE SharedFlights ------------------------------
(* What callers that share their work promise each other, with no key, map or *)
(* token in it. Whatever is got for a resource (a login for a request object) *)
(* is a flight: the first client that wants it starts one, and the others     *)
(* board that one instead of starting theirs.                                 *)
(*                                                                            *)
(*  - At most one flight for a resource is under way.                         *)
(*  - Nobody boards what has landed: the outcome of a flight goes to those    *)
(*    who came while it was under way.                                        *)
(*  - Nobody leaves on the way, and nobody is left behind: when a flight      *)
(*    lands, all aboard are released together, with one and the same outcome, *)
(*    which is the resource the flight was for, or nothing.                   *)
(*                                                                            *)
(* Liveness is not part of it: what makes a flight land is outside.           *)
CONSTANTS
    Clients,
    Flights,
    Resources,
    NoFlight,       \* what a client is aboard that waits for nothing
    Nothing         \* the outcome of a flight that fails; what a landed flight is for

VARIABLES
    flight,         \* flight -> the resource it is under way for, or Nothing
    aboard,         \* client -> the flight it waits for, or NoFlight
    brought         \* client -> what it was given last; of no meaning aboard

vars == <<flight, aboard, brought>>

UnderWay(f) == flight[f] # Nothing

Waiting(c) == aboard[c] # NoFlight

Init ==
    /\ flight = [f \in Flights |-> Nothing]
    /\ aboard = [c \in Clients |-> NoFlight]
    /\ brought \in [Clients -> Resources \cup {Nothing}]

(* What c has been given may be anything a flight could have given it. *)
Given(c) ==
    /\ brought' = [brought EXCEPT ![c] = brought'[c]]
    /\ brought'[c] \in Resources \cup {Nothing}

Boards(c, f) ==
    /\ ~Waiting(c)
    /\ aboard' = [aboard EXCEPT ![c] = f]
    /\ Given(c)

(* Nobody is getting r yet. *)
Start(c, f, r) ==
    /\ ~UnderWay(f)
    /\ \A g \in Flights : flight[g] # r
    /\ Boards(c, f)
    /\ flight' = [flight EXCEPT ![f] = r]

Join(c, f) ==
    /\ UnderWay(f)
    /\ Boards(c, f)
    /\ UNCHANGED flight

Land(f, outcome) ==
    /\ UnderWay(f)
    /\ flight' = [flight EXCEPT ![f] = Nothing]
    /\ aboard' = [c \in Clients |-> IF aboard[c] = f THEN NoFlight ELSE aboard[c]]
    /\ brought' = [c \in Clients |-> IF aboard[c] = f THEN outcome ELSE brought[c]]

(* A client that waits for no flight is given something without one. *)
Otherwise(c) ==
    /\ ~Waiting(c)
    /\ UNCHANGED <<flight, aboard>>
    /\ Given(c)

Next ==
    \/ \E c \in Clients : Otherwise(c)
    \/ \E c \in Clients, f \in Flights : Join(c, f) \/ \E r \in Resources : Start(c, f, r)
    \/ \E f \in Flights : \E outcome \in {flight[f], Nothing} : Land(f, outcome)

Spec == Init /\ [][Next]_vars
================================================================================
