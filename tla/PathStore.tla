------------------------------ MODULE PathStore ------------------------------
(***************************************************************************)
(* What the engine promises for one file path: each write or delete takes  *)
(* effect as a whole, at some moment after it was issued, and an           *)
(* acknowledged one is never undone by an operation that came before it.   *)
(* An operation that returned an error may still take effect, as long as   *)
(* nothing issued after it has been acknowledged.                          *)
(***************************************************************************)
CONSTANTS Paths, Requests, Target, Kind, None

VARIABLES
    content, \* [Paths -> Requests or None]: what a reader of the path gets
    phase,   \* [Requests -> {"new", "running", "done", "failed"}]
    before   \* [Requests -> SUBSET Requests]: returned before the request began

storeVars == <<content, phase, before>>

Effect(r) == IF Kind[r] = "write" THEN r ELSE None

\* The requests of a path that no acknowledged request was issued after.
Latest(p) == {r \in Requests : Target[r] = p /\ phase[r] # "new"
                 /\ \A s \in Requests : (Target[s] = p /\ phase[s] = "done") => r \notin before[s]}

Init == /\ content = [p \in Paths |-> None]
        /\ phase = [r \in Requests |-> "new"]
        /\ before = [r \in Requests |-> {}]

Begin(r) == /\ phase[r] = "new"
            /\ phase' = [phase EXCEPT ![r] = "running"]
            /\ before' = [before EXCEPT ![r] = {s \in Requests : phase[s] \in {"done", "failed"}}]
            /\ UNCHANGED content

\* The content of a path changes only to the effect of one of the latest requests.
TakeEffect(r) == /\ r \in Latest(Target[r])
                 /\ content' = [content EXCEPT ![Target[r]] = Effect(r)]
                 /\ UNCHANGED <<phase, before>>

\* An acknowledgement leaves the path with the effect of one of the latest requests.
\* A delete that is its own acknowledgement takes effect in the same step.
Acknowledge(r) ==
    /\ phase[r] = "running"
    /\ phase' = [phase EXCEPT ![r] = "done"]
    /\ \/ content' = [content EXCEPT ![Target[r]] = Effect(r)]
       \/ UNCHANGED content
    /\ \E s \in Latest(Target[r])' : content'[Target[r]] = Effect(s)
    /\ UNCHANGED before

\* Requests fail: one of them, or all at once when the process dies.  After a
\* restart a path may hold the effect of a request that never returned.
Fail ==
    /\ phase' = [r \in Requests |-> IF phase[r] = "running" THEN "failed" ELSE phase[r]]
       \/ \E r \in Requests : phase[r] = "running" /\ phase' = [phase EXCEPT ![r] = "failed"]
    /\ \A p \in Paths : content'[p] \in {content[p]} \cup {Effect(r) : r \in Latest(p)}
    /\ DOMAIN content' = Paths
    /\ UNCHANGED before

Next == Fail \/ \E r \in Requests : Begin(r) \/ TakeEffect(r) \/ Acknowledge(r)
Spec == Init /\ [][Next]_storeVars
=============================================================================
