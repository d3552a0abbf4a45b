----------------------------- MODULE SingleFlight -----------------------------
(***************************************************************************)
(* What the memoised promises of @moribashi/auth promise, with no promise  *)
(* in it: per cell (an IdP endpoint, an issuer) at most one flight is in   *)
(* progress, everyone who asks meanwhile shares it, everyone who asks      *)
(* after it succeeded shares its result until that lapses, and a failed    *)
(* flight is shared by nobody who asks after it failed.                    *)
(***************************************************************************)
EXTENDS Naturals

CONSTANTS
    Clients,     \* callers, one request at a time each
    Cells,       \* what is fetched and shared
    MaxFlights   \* bound: flights ever started per cell

VARIABLES
    flights,     \* per cell and flight, what became of it
    last,        \* per cell, its latest flight (0: none)
    usable,      \* the cells whose latest flight is shared
    waits,       \* per client, the cell and flight it waits for (flight 0: none)
    answer       \* per client, what its last request led to

vars == <<flights, last, usable, waits, answer>>

Init ==
    /\ flights = [c \in Cells |-> [n \in 1 .. MaxFlights |-> "unused"]]
    /\ last = [c \in Cells |-> 0]
    /\ usable = {}
    /\ waits \in [Clients -> [cell : Cells, flight : {0}]]
    /\ answer = [p \in Clients |-> "none"]

Share(p, c) ==
    /\ waits[p].flight = 0 /\ c \in usable
    /\ waits' = [waits EXCEPT ![p] = [cell |-> c, flight |-> last[c]]]
    /\ answer' = [answer EXCEPT ![p] = "none"]
    /\ UNCHANGED <<flights, last, usable>>

\* A new flight, only when no other one is in progress.
Launch(p, c) ==
    /\ waits[p].flight = 0 /\ c \notin usable /\ last[c] < MaxFlights
    /\ \A n \in 1 .. MaxFlights : flights[c][n] # "running"
    /\ last' = [last EXCEPT ![c] = @ + 1]
    /\ flights' = [flights EXCEPT ![c][last[c] + 1] = "running"]
    /\ usable' = usable \cup {c}
    /\ waits' = [waits EXCEPT ![p] = [cell |-> c, flight |-> last[c] + 1]]
    /\ answer' = [answer EXCEPT ![p] = "none"]

Succeed(c) ==
    /\ last[c] # 0 /\ flights[c][last[c]] = "running"
    /\ flights' = [flights EXCEPT ![c][last[c]] = "ok"]
    /\ UNCHANGED <<last, usable, waits, answer>>

\* From here on nobody shares the flight.
Fail(c) ==
    /\ last[c] # 0 /\ flights[c][last[c]] = "running"
    /\ flights' = [flights EXCEPT ![c][last[c]] = "failed"]
    /\ usable' = usable \ {c}
    /\ UNCHANGED <<last, waits, answer>>

\* The result is no longer good enough to share.
Lapse(c) ==
    /\ c \in usable /\ flights[c][last[c]] = "ok"
    /\ usable' = usable \ {c}
    /\ UNCHANGED <<flights, last, waits, answer>>

Return(p) ==
    /\ waits[p].flight # 0
    /\ flights[waits[p].cell][waits[p].flight] \in {"ok", "failed"}
    /\ answer' = [answer EXCEPT ![p] =
                      flights[waits[p].cell][waits[p].flight]]
    /\ waits' = [waits EXCEPT ![p].flight = 0]
    /\ UNCHANGED <<flights, last, usable>>

Next ==
    \/ \E p \in Clients, c \in Cells : Share(p, c) \/ Launch(p, c)
    \/ \E c \in Cells : Succeed(c) \/ Fail(c) \/ Lapse(c)
    \/ \E p \in Clients : Return(p)

Spec == Init /\ [][Next]_vars

-----------------------------------------------------------------------------
(***************************************************************************)
(* What a single flight is good for.                                       *)
(***************************************************************************)
States == {"unused", "running", "ok", "failed"}

Types ==
    /\ flights \in [Cells -> [1 .. MaxFlights -> States]]
    /\ last \in [Cells -> 0 .. MaxFlights]
    /\ usable \subseteq Cells
    /\ waits \in [Clients -> [cell : Cells, flight : 0 .. MaxFlights]]

\* Never two requests for the same thing at a time, however many ask
\* (workload-identity.ts:53, verify.ts:96).
OneFlight ==
    \A c \in Cells : \A m, n \in 1 .. MaxFlights :
        flights[c][m] = "running" /\ flights[c][n] = "running" => m = n

\* Only the latest flight of a cell can be in progress, and it is then shared.
LatestRuns ==
    \A c \in Cells, n \in 1 .. MaxFlights :
        flights[c][n] = "running" => n = last[c] /\ c \in usable

\* What is shared runs or succeeded.
SharedSound ==
    \A c \in usable : last[c] # 0 /\ flights[c][last[c]] \in {"running", "ok"}

FlightInv == Types /\ LatestRuns /\ SharedSound

\* Whoever begins to wait waits for a flight that has not failed: a failure reaches
\* those who asked before it, and nobody after (workload-identity.ts:55, verify.ts:98).
FailureUnshared ==
    [][\A p \in Clients :
           waits[p].flight = 0 /\ waits'[p].flight # 0 =>
               flights'[waits'[p].cell][waits'[p].flight] \in {"running", "ok"}]_vars
=============================================================================
