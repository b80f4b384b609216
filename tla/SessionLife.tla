---------------------------- MODULE SessionLife -----------------------------
(***************************************************************************)
(* What the session table promises its callers, with no word, no flag and   *)
(* no recycling in sight: sessions are opened under keys that never repeat, *)
(* a slot of the table carries at most one open session, a caller is given  *)
(* the very session it asks for, and a session is closed only when no       *)
(* caller is using it.  SessionManager implements this specification.       *)
(***************************************************************************)
EXTENDS Naturals

CONSTANTS Callers, Slots, MaxKey

VARIABLES
  nextKey,   \* keys below this one were given to sessions already
  open,      \* the sessions that are open
  using      \* using[u]: the sessions user u got and has not given back

vars == <<nextKey, open, using>>

Session(k, s) == [key |-> k, idx |-> s]

Init == nextKey = 0 /\ open = {} /\ using = [u \in Callers |-> {}]

Open(s) ==
  /\ nextKey < MaxKey /\ \A i \in open : i.idx # s
  /\ open' = open \cup {Session(nextKey, s)}
  /\ nextKey' = nextKey + 1
  /\ UNCHANGED using

Join(u, i) ==
  /\ i \in open /\ using[u] = {}
  /\ using' = [using EXCEPT ![u] = {i}]
  /\ UNCHANGED <<nextKey, open>>

Leave(u) ==
  /\ using[u] # {}
  /\ using' = [using EXCEPT ![u] = {}]
  /\ UNCHANGED <<nextKey, open>>

Close(i) ==
  /\ i \in open /\ \A u \in Callers : i \notin using[u]
  /\ open' = open \ {i}
  /\ UNCHANGED <<nextKey, using>>

Next ==
  \/ \E s \in Slots : Open(s)
  \/ \E i \in open : Close(i) \/ \E u \in Callers : Join(u, i)
  \/ \E u \in Callers : Leave(u)

Spec == Init /\ [][Next]_vars
=============================================================================
